---- MODULE Spec2Model ----
(***************************************************************************)
(* A state-machine model of the connector generator                        *)
(* (dataconnectors_codegen): the loaders, run_generation, GeneratorEngine, *)
(* the java generator (_determine_operations, _generate_model_pojos,       *)
(* _generate_backend_client, get_java_type) and the directory-schema       *)
(* generator (prepare_schema_context).                                     *)
(*                                                                         *)
(* Representation.  A Python str that the code transforms (names, paths,   *)
(* references, Java type names) is a sequence of one-character strings; a  *)
(* str the code only compares with literals (type, format, in, keys of an  *)
(* object class) is a TLA+ string, "" standing for an absent value.  A     *)
(* Python dict read with .get is a function whose DOMAIN is the set of     *)
(* keys present; a dict whose iteration order matters is a sequence of     *)
(* [key, value] records in insertion order.                                *)
(***************************************************************************)
EXTENDS Integers, Sequences, FiniteSets, TLC

VARIABLES
    openapi,                 \* the API document (parsed JSON)
    mapping,                 \* the mapping document (parsed JSON)
    schema_extraction,       \* the --schema-extraction flag
    pc,                      \* position of the run
    output_dir,              \* TRUE once the output directory exists
    engine,                  \* TRUE once GeneratorEngine is constructed
    files,                   \* artifacts written so far, in order
    operations,              \* _determine_operations: the capability set
    mod_i,                   \* _generate_model_pojos: next schema
    generated_models,        \* _generate_model_pojos: set of class names
    models,                  \* Pojo.java.j2 contexts rendered, in order
    cl_i,                    \* _generate_backend_client: next path item entry
    methods,                 \* _generate_backend_client: the methods list
    client_method_metadata,  \* _generate_backend_client: the metadata dict
    sch_i,                   \* prepare_schema_context: next object class
    object_classes,          \* prepare_schema_context: the object_classes list
    schema_context,          \* what prepare_schema_context returned, if it did
    properties,              \* prepare_meta_context: the properties list
    auth_details,            \* _prepare_auth_details: the dict given to the client template
    diagnostics              \* the warnings and errors logged or printed

vars == <<openapi, mapping, schema_extraction, pc, output_dir, engine, files,
          operations, mod_i, generated_models, models,
          cl_i, methods, client_method_metadata,
          sch_i, object_classes, schema_context, properties, auth_details,
          diagnostics>>

-----------------------------------------------------------------------------
(* Python values *)

EmptyDict == [k \in {} |-> TRUE]

Get(d, k, dflt) == IF k \in DOMAIN d THEN d[k] ELSE dflt

\* An ordered dict as a sequence of [key, value]: lookup, membership, store.
DictHas(d, k) == \E i \in 1..Len(d) : d[i].key = k

DictGet(d, k, dflt) ==
    IF DictHas(d, k) THEN d[CHOOSE i \in 1..Len(d) : d[i].key = k].value ELSE dflt

DictKeys(d) == {d[i].key : i \in 1..Len(d)}

\* d[k] = v of a Python dict: a new key is appended, an existing key keeps its
\* position and has its value replaced.
DictPut(d, k, v) ==
    IF DictHas(d, k)
    THEN [i \in 1..Len(d) |-> IF d[i].key = k THEN [key |-> k, value |-> v] ELSE d[i]]
    ELSE Append(d, [key |-> k, value |-> v])

-----------------------------------------------------------------------------
(* Python str operations on sequences of characters *)

LowerChars == <<"a", "b", "c", "d", "e", "f", "g", "h", "i", "j", "k", "l", "m", "n", "o", "p", "q", "r", "s", "t", "u", "v", "w", "x", "y", "z">>
UpperChars == <<"A", "B", "C", "D", "E", "F", "G", "H", "I", "J", "K", "L", "M", "N", "O", "P", "Q", "R", "S", "T", "U", "V", "W", "X", "Y", "Z">>
DigitChars == {"0", "1", "2", "3", "4", "5", "6", "7", "8", "9"}

IsLower(c) == \E i \in 1..Len(LowerChars) : LowerChars[i] = c
IsUpper(c) == \E i \in 1..Len(UpperChars) : UpperChars[i] = c

ToUpperChar(c) ==
    IF IsLower(c) THEN UpperChars[CHOOSE i \in 1..Len(LowerChars) : LowerChars[i] = c] ELSE c

ToLowerChar(c) ==
    IF IsUpper(c) THEN LowerChars[CHOOSE i \in 1..Len(UpperChars) : UpperChars[i] = c] ELSE c

\* str.upper, str.lower, str.capitalize
StrUpper(s) == [i \in 1..Len(s) |-> ToUpperChar(s[i])]
StrLower(s) == [i \in 1..Len(s) |-> ToLowerChar(s[i])]
Capitalize(s) == [i \in 1..Len(s) |-> IF i = 1 THEN ToUpperChar(s[i]) ELSE ToLowerChar(s[i])]

\* str.replace(pat, rep), pat not empty: leftmost, non-overlapping.
RECURSIVE Replace(_, _, _)
Replace(s, pat, rep) ==
    IF Len(s) < Len(pat) THEN s
    ELSE IF SubSeq(s, 1, Len(pat)) = pat
         THEN rep \o Replace(SubSeq(s, Len(pat) + 1, Len(s)), pat, rep)
         ELSE <<s[1]>> \o Replace(Tail(s), pat, rep)

\* s.split(sep)[-1] for a one-character sep: what follows the last sep.
RECURSIVE SplitLast(_, _)
SplitLast(s, sep) ==
    IF \E i \in 1..Len(s) : s[i] = sep
    THEN SplitLast(SubSeq(s, (CHOOSE i \in 1..Len(s) : s[i] = sep) + 1, Len(s)), sep)
    ELSE s

\* [a-zA-Z0-9_\s-] and [_\s-] of to_java_class_name (of \s, the space).
IsSeparatorChar(c) == c \in {"_", " ", "-"}
IsNameChar(c) == IsLower(c) \/ IsUpper(c) \/ c \in DigitChars \/ IsSeparatorChar(c)

\* re.sub(r'[_\s-]+', ' ', s): every maximal run of separators becomes one space.
RECURSIVE CollapseSeparators(_)
CollapseSeparators(s) ==
    IF s = <<>> THEN <<>>
    ELSE IF IsSeparatorChar(s[1])
         THEN IF Len(s) > 1 /\ IsSeparatorChar(s[2])
              THEN CollapseSeparators(Tail(s))
              ELSE <<" ">> \o CollapseSeparators(Tail(s))
         ELSE <<s[1]>> \o CollapseSeparators(Tail(s))

\* str.strip() on a string whose only white space is the space.
RECURSIVE Strip(_)
Strip(s) ==
    IF s = <<>> THEN s
    ELSE IF s[1] = " " THEN Strip(Tail(s))
    ELSE IF s[Len(s)] = " " THEN Strip(SubSeq(s, 1, Len(s) - 1))
    ELSE s

\* str.split(): the maximal runs of non-space characters, in order.
RECURSIVE SplitWords(_, _)
SplitWords(s, cur) ==
    IF s = <<>> THEN (IF cur = <<>> THEN <<>> ELSE <<cur>>)
    ELSE IF s[1] = " "
         THEN (IF cur = <<>> THEN <<>> ELSE <<cur>>) \o SplitWords(Tail(s), <<>>)
         ELSE SplitWords(Tail(s), Append(cur, s[1]))

RECURSIVE JoinCapitalized(_)
JoinCapitalized(words) ==
    IF words = <<>> THEN <<>>
    ELSE Capitalize(Head(words)) \o JoinCapitalized(Tail(words))

S_UnnamedModel == <<"U", "n", "n", "a", "m", "e", "d", "M", "o", "d", "e", "l">>
S_unnamedVar == <<"u", "n", "n", "a", "m", "e", "d", "V", "a", "r">>

to_java_class_name(name) ==
    IF name = <<>> THEN S_UnnamedModel
    ELSE LET cleaned == SelectSeq(name, IsNameChar)
             spaced  == Strip(CollapseSeparators(cleaned))
         IN  JoinCapitalized(SplitWords(spaced, <<>>))

to_java_variable_name(name) ==
    LET class_name == to_java_class_name(name)
    IN  IF class_name = <<>> THEN S_unnamedVar
        ELSE <<ToLowerChar(class_name[1])>> \o Tail(class_name)

-----------------------------------------------------------------------------
(* get_java_type: OpenAPI schema fragment -> simple Java type name.        *)
(* A fragment is a dict with keys among type, format, ref ($ref), items,   *)
(* additionalProperties, properties, required.  additionalProperties that  *)
(* is not a dict (true/false in the document) is the value NotADict.       *)

S_Object == <<"O", "b", "j", "e", "c", "t">>
S_LocalDate == <<"L", "o", "c", "a", "l", "D", "a", "t", "e">>
S_OffsetDateTime == <<"O", "f", "f", "s", "e", "t", "D", "a", "t", "e", "T", "i", "m", "e">>
S_byteArray == <<"b", "y", "t", "e", "[", "]">>
S_String == <<"S", "t", "r", "i", "n", "g">>
S_Long == <<"L", "o", "n", "g">>
S_Integer == <<"I", "n", "t", "e", "g", "e", "r">>
S_Float == <<"F", "l", "o", "a", "t">>
S_Double == <<"D", "o", "u", "b", "l", "e">>
S_Boolean == <<"B", "o", "o", "l", "e", "a", "n">>
S_ListOpen == <<"L", "i", "s", "t", "<">>
S_Close == <<">">>
S_MapOpen == <<"M", "a", "p", "<", "S", "t", "r", "i", "n", "g", ",", " ">>
S_MapStringObject == <<"M", "a", "p", "<", "S", "t", "r", "i", "n", "g", ",", " ", "O", "b", "j", "e", "c", "t", ">">>

NotADict == [not_a_dict |-> TRUE]
IsDict(v) == "not_a_dict" \notin DOMAIN v

\* A variant that ignores the format of integers and numbers.
RECURSIVE get_java_type_bare_numbers(_)
get_java_type_bare_numbers(schema_prop) ==
    LET openapi_type   == Get(schema_prop, "type", "object")
        openapi_format == Get(schema_prop, "format", "")
    IN  CASE openapi_type = "string" ->
                 IF openapi_format = "date" THEN S_LocalDate
                 ELSE IF openapi_format = "date-time" THEN S_OffsetDateTime
                 ELSE IF openapi_format = "binary" \/ openapi_format = "byte" THEN S_byteArray
                 ELSE S_String
          [] openapi_type = "integer" ->
                 S_Integer
          [] openapi_type = "number" ->
                 S_Double
          [] openapi_type = "boolean" -> S_Boolean
          [] openapi_type = "array" ->
                 S_ListOpen \o get_java_type_bare_numbers(Get(schema_prop, "items", EmptyDict)) \o S_Close
          [] openapi_type = "object" ->
                 LET ref == Get(schema_prop, "ref", <<>>)
                 IN  IF ref # <<>>
                     THEN to_java_class_name(SplitLast(ref, "/"))
                     ELSE LET additional_props == Get(schema_prop, "additionalProperties", NotADict)
                          IN  IF IsDict(additional_props)
                              THEN S_MapOpen \o get_java_type_bare_numbers(additional_props) \o S_Close
                              ELSE S_MapStringObject
          [] OTHER -> S_Object

RECURSIVE get_java_type(_)
get_java_type(schema_prop) ==
    LET openapi_type   == Get(schema_prop, "type", "object")
        openapi_format == Get(schema_prop, "format", "")
    IN  CASE openapi_type = "string" ->
                 IF openapi_format = "date" THEN S_LocalDate
                 ELSE IF openapi_format = "date-time" THEN S_OffsetDateTime
                 ELSE IF openapi_format = "binary" \/ openapi_format = "byte" THEN S_byteArray
                 ELSE S_String
          [] openapi_type = "integer" ->
                 IF openapi_format = "int64" THEN S_Long ELSE S_Integer
          [] openapi_type = "number" ->
                 IF openapi_format = "float" THEN S_Float ELSE S_Double
          [] openapi_type = "boolean" -> S_Boolean
          [] openapi_type = "array" ->
                 S_ListOpen \o get_java_type(Get(schema_prop, "items", EmptyDict)) \o S_Close
          [] openapi_type = "object" ->
                 LET ref == Get(schema_prop, "ref", <<>>)
                 IN  IF ref # <<>>
                     THEN to_java_class_name(SplitLast(ref, "/"))
                     ELSE LET additional_props == Get(schema_prop, "additionalProperties", NotADict)
                          IN  IF IsDict(additional_props)
                              THEN S_MapOpen \o get_java_type(additional_props) \o S_Close
                              ELSE S_MapStringObject
          [] OTHER -> S_Object

-----------------------------------------------------------------------------
(* Accessors of the API document.  The document is                         *)
(*   [top |-> the top-level keys present, ill_typed |-> the keys whose     *)
(*    value has another JSON type than OPENAPI_BASIC_SCHEMA asks for,      *)
(*    paths |-> ordered dict path template -> path item,                   *)
(*    schemas |-> ordered dict schema name -> schema]                      *)
(* and a path item is an ordered dict key -> value: under a method key the *)
(* operation's details, under "parameters" the path-level parameter list.  *)

get_paths(openapi_spec) == openapi_spec.paths

get_schemas(openapi_spec) == openapi_spec.schemas

K_get == <<"g", "e", "t">>
K_GET == <<"G", "E", "T">>
K_post == <<"p", "o", "s", "t">>
K_put == <<"p", "u", "t">>
K_patch == <<"p", "a", "t", "c", "h">>
K_delete == <<"d", "e", "l", "e", "t", "e">>
K_head == <<"h", "e", "a", "d">>
K_parameters == <<"p", "a", "r", "a", "m", "e", "t", "e", "r", "s">>

\* ['GET', 'POST', 'PUT', 'PATCH', 'DELETE']
HTTP_METHODS == {StrUpper(K_get), StrUpper(K_post), StrUpper(K_put), StrUpper(K_patch), StrUpper(K_delete)}

-----------------------------------------------------------------------------
(* _determine_operations *)

\* A variant of the loop body in which PATCH grants nothing.
PathOperationsPutOnly(path_item) ==
    LET path_methods == {StrUpper(k) : k \in DictKeys(path_item)} \cap HTTP_METHODS
    IN  (IF StrUpper(K_get) \in path_methods THEN {"Search"} ELSE {})
        \cup (IF StrUpper(K_post) \in path_methods THEN {"Insertion"} ELSE {})
        \cup (IF StrUpper(K_put) \in path_methods THEN {"Modification"} ELSE {})
        \cup (IF StrUpper(K_delete) \in path_methods THEN {"Deletion"} ELSE {})

\* The body of the loop over paths, for one path item.
PathOperations(path_item) ==
    LET path_methods == {StrUpper(k) : k \in DictKeys(path_item)} \cap HTTP_METHODS
    IN  (IF StrUpper(K_get) \in path_methods THEN {"Search"} ELSE {})
        \cup (IF StrUpper(K_post) \in path_methods THEN {"Insertion"} ELSE {})
        \cup (IF StrUpper(K_put) \in path_methods \/ StrUpper(K_patch) \in path_methods
              THEN {"Modification"} ELSE {})
        \cup (IF StrUpper(K_delete) \in path_methods THEN {"Deletion"} ELSE {})

RECURSIVE OperationsOfPaths(_, _)
OperationsOfPaths(paths, acc) ==
    IF paths = <<>> THEN acc
    ELSE OperationsOfPaths(Tail(paths), acc \cup PathOperations(Head(paths).value))

_determine_operations(openapi_spec, schema_extraction_enabled) ==
    OperationsOfPaths(get_paths(openapi_spec), {"TestConnect"})
    \cup (IF schema_extraction_enabled THEN {"SchemaExtraction"} ELSE {})

-----------------------------------------------------------------------------
(* _generate_model_pojos: the context of one schema's Pojo.java.j2 *)

S_get == <<"g", "e", "t">>
S_set == <<"s", "e", "t">>

\* A variant that follows a reference and types the field by the schema the
\* reference names.
PojoFieldFollowing(prop_name, prop_details) ==
    LET field_name == to_java_variable_name(prop_name)
        followed   == IF "ref" \in DOMAIN prop_details
                      THEN DictGet(get_schemas(openapi), SplitLast(prop_details["ref"], "/"), EmptyDict)
                      ELSE prop_details
    IN  [name          |-> field_name,
         type          |-> get_java_type([x \in DOMAIN followed \ {"ref"} |-> followed[x]]),
         json_property |-> prop_name,
         getter        |-> S_get \o Capitalize(field_name),
         setter        |-> S_set \o Capitalize(field_name)]

\* A variant that types a list field by its elements, without the List.
PojoFieldElementType(prop_name, prop_details) ==
    LET field_name == to_java_variable_name(prop_name)
    IN  [name          |-> field_name,
         type          |-> IF Get(prop_details, "type", "object") = "array"
                           THEN get_java_type(Get(prop_details, "items", EmptyDict))
                           ELSE get_java_type(prop_details),
         json_property |-> prop_name,
         getter        |-> S_get \o Capitalize(field_name),
         setter        |-> S_set \o Capitalize(field_name)]

PojoField(prop_name, prop_details) ==
    LET field_name == to_java_variable_name(prop_name)
    IN  [name          |-> field_name,
         type          |-> get_java_type(prop_details),
         json_property |-> prop_name,
         getter        |-> S_get \o Capitalize(field_name),
         setter        |-> S_set \o Capitalize(field_name)]

\* Generate POJO only for object types (or refs treated as objects).
IsPojoSchema(schema_details) ==
    Get(schema_details, "type", "object") = "object" \/ "ref" \in DOMAIN schema_details

PojoContext(schema_name, schema_details) ==
    LET openapi_properties == Get(schema_details, "properties", <<>>)
    IN  [class_name |-> to_java_class_name(schema_name),
         fields     |-> [i \in 1..Len(openapi_properties) |->
                            PojoField(openapi_properties[i].key, openapi_properties[i].value)]]

-----------------------------------------------------------------------------
(* _generate_backend_client: one operation *)

S_void == <<"v", "o", "i", "d">>
S_Void == <<"V", "o", "i", "d">>
BACKEND_RESPONSE_BASE == <<"B", "a", "c", "k", "e", "n", "d", "R", "e", "s", "p", "o", "n", "s", "e">>
S_boolean == <<"b", "o", "o", "l", "e", "a", "n">>
S_body == <<"b", "o", "d", "y">>
S_testConnection == <<"t", "e", "s", "t", "C", "o", "n", "n", "e", "c", "t", "i", "o", "n">>

\* The path item's entries in iteration order, with the path they are under:
\* the nested loops over paths.items() and path_details.items(), flattened.
RECURSIVE ClientEntries(_)
ClientEntries(paths) ==
    IF paths = <<>> THEN <<>>
    ELSE LET path_template == Head(paths).key
             path_details  == Head(paths).value
         IN  [i \in 1..Len(path_details) |->
                 [path_template |-> path_template,
                  common_params |-> DictGet(path_details, K_parameters, <<>>),
                  http_method   |-> path_details[i].key,
                  op_details    |-> path_details[i].value]]
             \o ClientEntries(Tail(paths))

\* A variant in which the method is part of every identifier, declared or not.
OperationIdWithMethod(http_method, path_template, op_details) ==
    StrLower(http_method)
    \o Get(op_details, "operationId", Replace(path_template, <<"/">>, <<"_">>))

\* operationId, or the identifier generated from method and path.
OperationId(http_method, path_template, op_details) ==
    LET operation_id == Get(op_details, "operationId", <<>>)
    IN  IF operation_id # <<>> THEN operation_id
        ELSE StrLower(http_method)
             \o Replace(Replace(Replace(path_template, <<"/">>, <<"_">>),
                                <<"{">>, <<"_">>),
                        <<"}", " ">>, <<>>)

\* The loop over all_op_params: path and query parameters, in list order.
RECURSIVE SignatureParams(_)
SignatureParams(all_op_params) ==
    IF all_op_params = <<>> THEN <<>>
    ELSE LET param_details == Head(all_op_params)
             param_in      == Get(param_details, "in", "")
         IN  (IF param_in \in {"path", "query"}
              THEN <<[name          |-> to_java_variable_name(Get(param_details, "name", <<>>)),
                      type          |-> get_java_type(Get(param_details, "schema", EmptyDict)),
                      original_name |-> Get(param_details, "name", <<>>),
                      in            |-> param_in]>>
              ELSE <<>>)
             \o SignatureParams(Tail(all_op_params))

\* request_body_details.get('content', {}).get('application/json') with a schema
JsonSchemaOf(body_or_response) ==
    LET json_content == Get(Get(body_or_response, "content", EmptyDict), "application/json", EmptyDict)
    IN  IF DOMAIN json_content # {} /\ "schema" \in DOMAIN json_content
        THEN [found |-> TRUE, schema |-> json_content["schema"]]
        ELSE [found |-> FALSE]

BodyParams(op_details) ==
    LET request_body_details == Get(op_details, "requestBody", EmptyDict)
    IN  IF DOMAIN request_body_details # {} /\ JsonSchemaOf(request_body_details).found
        THEN <<[name          |-> S_body,
                type          |-> get_java_type(JsonSchemaOf(request_body_details).schema),
                original_name |-> S_body,
                in            |-> "body"]>>
        ELSE <<>>

\* responses.get('200') or responses.get('201')
SuccessResponse(op_details) ==
    LET responses == Get(op_details, "responses", EmptyDict)
        r200      == Get(responses, "200", EmptyDict)
    IN  IF DOMAIN r200 # {} THEN r200 ELSE Get(responses, "201", EmptyDict)

\* A variant without the DELETE/204 rule.
ReturnTypesWithoutNoContent(http_method, op_details) ==
    LET success_response == SuccessResponse(op_details)
        json    == JsonSchemaOf(success_response)
        typed   == DOMAIN success_response # {} /\ json.found
        untyped == DOMAIN success_response # {} /\ ~json.found
                   /\ Get(success_response, "description", "") # ""
        no_content == FALSE
        simple  == IF typed THEN get_java_type(json.schema) ELSE S_void
    IN  [return_type           |-> IF typed \/ untyped \/ no_content
                                   THEN BACKEND_RESPONSE_BASE ELSE S_void,
         return_type_simple    |-> simple,
         response_content_type |-> IF typed THEN "application/json" ELSE "",
         response_pojo_type    |-> IF no_content THEN S_Void
                                   ELSE IF typed THEN simple
                                   ELSE IF untyped THEN S_Void
                                   ELSE <<>>]

\* return_type, return_type_simple, response_content_type, response_pojo_type
\* ("" for None) after the success response and the DELETE/204 rule.
ReturnTypes(http_method, op_details) ==
    LET success_response == SuccessResponse(op_details)
        json    == JsonSchemaOf(success_response)
        typed   == DOMAIN success_response # {} /\ json.found
        untyped == DOMAIN success_response # {} /\ ~json.found
                   /\ Get(success_response, "description", "") # ""
        no_content == StrUpper(http_method) = StrUpper(K_delete)
                      /\ "204" \in DOMAIN Get(op_details, "responses", EmptyDict)
        simple  == IF typed THEN get_java_type(json.schema) ELSE S_void
    IN  [return_type           |-> IF typed \/ untyped \/ no_content
                                   THEN BACKEND_RESPONSE_BASE ELSE S_void,
         return_type_simple    |-> simple,
         response_content_type |-> IF typed THEN "application/json" ELSE "",
         response_pojo_type    |-> IF no_content THEN S_Void
                                   ELSE IF typed THEN simple
                                   ELSE IF untyped THEN S_Void
                                   ELSE <<>>]

\* The set of Java names of the path parameters (path_params_in_sig).
PathParamsInSig(params) == {params[i].name : i \in {j \in 1..Len(params) : params[j].in = "path"}}

\* list(a_set): the elements in the iteration order of the set, which for a
\* set of str follows the per-process hash seed: any order.
ListOfSet(S) == {s \in [1..Cardinality(S) -> S] : \A x \in S : \E i \in 1..Cardinality(S) : s[i] = x}

\* A variant that puts the body parameter first.
MethodDataBodyFirst(entry, path_params_list) ==
    LET operation_id == OperationId(entry.http_method, entry.path_template, entry.op_details)
        params == BodyParams(entry.op_details)
                  \o SignatureParams(entry.common_params \o Get(entry.op_details, "parameters", <<>>))
        body   == BodyParams(entry.op_details)
        ret    == ReturnTypes(entry.http_method, entry.op_details)
    IN  [name                   |-> to_java_variable_name(operation_id),
         http_method            |-> StrUpper(entry.http_method),
         endpoint_path_template |-> entry.path_template,
         params                 |-> params,
         path_params_in_sig     |-> path_params_list,
         request_body_param     |-> IF body = <<>> THEN EmptyDict ELSE body[1],
         return_type            |-> ret.return_type,
         return_type_simple     |-> ret.return_type_simple,
         request_content_type   |-> IF body = <<>> THEN "" ELSE "application/json",
         response_content_type  |-> ret.response_content_type]

\* method_data of one operation; path_params_list is list(path_params_in_sig).
MethodData(entry, path_params_list) ==
    LET operation_id == OperationId(entry.http_method, entry.path_template, entry.op_details)
        params == SignatureParams(entry.common_params \o Get(entry.op_details, "parameters", <<>>))
                  \o BodyParams(entry.op_details)
        body   == BodyParams(entry.op_details)
        ret    == ReturnTypes(entry.http_method, entry.op_details)
    IN  [name                   |-> to_java_variable_name(operation_id),
         http_method            |-> StrUpper(entry.http_method),
         endpoint_path_template |-> entry.path_template,
         params                 |-> params,
         path_params_in_sig     |-> path_params_list,
         request_body_param     |-> IF body = <<>> THEN EmptyDict ELSE body[1],
         return_type            |-> ret.return_type,
         return_type_simple     |-> ret.return_type_simple,
         request_content_type   |-> IF body = <<>> THEN "" ELSE "application/json",
         response_content_type  |-> ret.response_content_type]

\* client_method_metadata[operation_id] of one operation.
MethodMetadata(entry) ==
    LET method_data == MethodData(entry, <<>>)
        ret         == ReturnTypes(entry.http_method, entry.op_details)
    IN  [name         |-> method_data.name,
         signature    |-> [i \in 1..Len(method_data.params) |->
                              <<method_data.params[i].type, method_data.params[i].name>>],
         return_type  |-> ret.return_type,
         payload_type |-> IF ret.response_pojo_type # <<>> THEN ret.response_pojo_type
                          ELSE ret.return_type_simple]

\* The testConnection method appended after the loop.
TestConnectMethod(method_list) ==
    LET plain_gets == {i \in 1..Len(method_list) :
                          method_list[i].http_method = StrUpper(K_get) /\ method_list[i].params = <<>>}
        any_gets   == {i \in 1..Len(method_list) : method_list[i].http_method = StrUpper(K_get)}
        chosen     == IF plain_gets # {} THEN plain_gets ELSE any_gets
        first      == CHOOSE i \in chosen : \A j \in chosen : i <= j
        base       == [name                   |-> S_testConnection,
                       http_method            |-> StrUpper(K_get),
                       params                 |-> <<>>,
                       path_params_in_sig     |-> <<>>,
                       request_body_param     |-> EmptyDict,
                       return_type            |-> S_boolean,
                       return_type_simple     |-> S_boolean,
                       is_test_connection     |-> TRUE]
    IN  IF chosen # {}
        THEN base @@ [endpoint_path_template |-> method_list[first].endpoint_path_template,
                      target_call_name       |-> method_list[first].name,
                      target_call_args       |-> {method_list[first].params[i].name :
                                                     i \in 1..Len(method_list[first].params)}]
        ELSE base @@ [endpoint_path_template |-> <<"/">>,
                      target_call_name       |-> <<>>]

\* json.dumps of the metadata dict, with the default separators ", " and ": ".
\* The strings of the metadata are Java names and types: none has a character
\* json.dumps escapes.  A tuple is written as a list.
JsonString(str) == <<"\"">> \o str \o <<"\"">>

RECURSIVE JsonJoin(_)
JsonJoin(texts) ==
    IF texts = <<>> THEN <<>>
    ELSE IF Len(texts) = 1 THEN texts[1]
    ELSE texts[1] \o <<",", " ">> \o JsonJoin(Tail(texts))

JsonList(texts) == <<"[">> \o JsonJoin(texts) \o <<"]">>

JsonMember(key, text) == JsonString(key) \o <<":", " ">> \o text

JsonMetadataEntry(entry) ==
    <<"{">>
    \o JsonJoin(<<JsonMember(<<"n", "a", "m", "e">>, JsonString(entry.name)),
                  JsonMember(<<"s", "i", "g", "n", "a", "t", "u", "r", "e">>,
                             JsonList([i \in 1..Len(entry.signature) |->
                                          JsonList(<<JsonString(entry.signature[i][1]),
                                                     JsonString(entry.signature[i][2])>>)])),
                  JsonMember(<<"r", "e", "t", "u", "r", "n", "_", "t", "y", "p", "e">>, JsonString(entry.return_type)),
                  JsonMember(<<"p", "a", "y", "l", "o", "a", "d", "_", "t", "y", "p", "e">>, JsonString(entry.payload_type))>>)
    \o <<"}">>

\* json.dumps(client_method_metadata or {})
json_dumps(metadata) ==
    <<"{">>
    \o JsonJoin([i \in 1..Len(metadata) |->
                    JsonMember(metadata[i].key, JsonMetadataEntry(metadata[i].value))])
    \o <<"}">>

-----------------------------------------------------------------------------
(* Security schemes.  The document may carry                               *)
(*   securitySchemes |-> ordered dict scheme name -> scheme,               *)
(*   security |-> the global requirement list, each requirement the set of *)
(*                its keys (the scope lists under them are never read),    *)
(* a scheme a dict with keys among type, name, in, scheme, flows, and      *)
(* flows an ordered dict flow type -> flow details.                        *)

get_security_schemes(openapi_spec) == Get(openapi_spec, "securitySchemes", <<>>)

\* openapi_spec.data.get('security', [])
global_security(openapi_spec) == Get(openapi_spec, "security", <<>>)

\* used_scheme_names / required_schemes: the keys of all the requirements.
used_scheme_names(openapi_spec) ==
    UNION {global_security(openapi_spec)[i] : i \in 1..Len(global_security(openapi_spec))}

\* None where the code would put a str.
None == <<"None">>

S_ApiKey == <<"A", "p", "i", "K", "e", "y">>
S_httpBasicUsername == <<"h", "t", "t", "p", "B", "a", "s", "i", "c", "U", "s", "e", "r", "n", "a", "m", "e">>
S_httpBasicPassword == <<"h", "t", "t", "p", "B", "a", "s", "i", "c", "P", "a", "s", "s", "w", "o", "r", "d">>
S_bearerToken == <<"b", "e", "a", "r", "e", "r", "T", "o", "k", "e", "n">>

NoAuthDetails ==
    [needs_api_key |-> FALSE, api_key_name |-> None, api_key_in |-> "",
     api_key_prop_name |-> None,
     needs_http_basic |-> FALSE, http_user_prop_name |-> None, http_pass_prop_name |-> None,
     needs_bearer_token |-> FALSE, bearer_token_prop_name |-> None,
     needs_oauth |-> FALSE]

\* One pass of the loop of _prepare_auth_details over schemes.items().
AuthDetailsStep(details, name, scheme, used) ==
    IF name \notin used THEN details
    ELSE LET scheme_type == Get(scheme, "type", "")
         IN  IF scheme_type = "apiKey"
             THEN [details EXCEPT !.needs_api_key = TRUE,
                                  !.api_key_name = Get(scheme, "name", None),
                                  !.api_key_in = Get(scheme, "in", ""),
                                  !.api_key_prop_name =
                                      to_java_class_name(Get(scheme, "name", name)) \o S_ApiKey]
             ELSE IF scheme_type = "http"
             THEN IF Get(scheme, "scheme", "") = "basic"
                  THEN [details EXCEPT !.needs_http_basic = TRUE,
                                       !.http_user_prop_name = S_httpBasicUsername,
                                       !.http_pass_prop_name = S_httpBasicPassword]
                  ELSE IF Get(scheme, "scheme", "") = "bearer"
                  THEN [details EXCEPT !.needs_bearer_token = TRUE,
                                       !.bearer_token_prop_name = S_bearerToken]
                  ELSE details
             ELSE IF scheme_type = "oauth2"
             THEN [details EXCEPT !.needs_oauth = TRUE]
             ELSE details

RECURSIVE AuthDetailsLoop(_, _, _)
AuthDetailsLoop(details, schemes, used) ==
    IF schemes = <<>> THEN details
    ELSE AuthDetailsLoop(AuthDetailsStep(details, Head(schemes).key, Head(schemes).value, used),
                         Tail(schemes), used)

_prepare_auth_details(openapi_spec) ==
    AuthDetailsLoop(NoAuthDetails, get_security_schemes(openapi_spec),
                    used_scheme_names(openapi_spec))

\* re.split('_|-', s): the parts between the separators, empty ones included.
RECURSIVE SplitSnake(_, _)
SplitSnake(s, cur) ==
    IF s = <<>> THEN <<cur>>
    ELSE IF s[1] \in {"_", "-"}
         THEN <<cur>> \o SplitSnake(Tail(s), <<>>)
         ELSE SplitSnake(Tail(s), Append(cur, s[1]))

\* str.title(): a letter is upper-cased after a character that is not a
\* letter (and at the start), lower-cased after a letter.
StrTitle(s) ==
    [i \in 1..Len(s) |->
        IF i > 1 /\ (IsLower(s[i - 1]) \/ IsUpper(s[i - 1]))
        THEN ToLowerChar(s[i]) ELSE ToUpperChar(s[i])]

RECURSIVE JoinTitled(_)
JoinTitled(parts) ==
    IF parts = <<>> THEN <<>>
    ELSE (IF Head(parts) = <<>> THEN <<>> ELSE StrTitle(Head(parts))) \o JoinTitled(Tail(parts))

_to_camel_case(snake_str) ==
    LET parts == SplitSnake(snake_str, <<>>)
    IN  Head(parts) \o JoinTitled(Tail(parts))

S_baseUrl == <<"b", "a", "s", "e", "U", "r", "l">>
S_httpUsername == <<"h", "t", "t", "p", "U", "s", "e", "r", "n", "a", "m", "e">>
S_httpPassword == <<"h", "t", "t", "p", "P", "a", "s", "s", "w", "o", "r", "d">>
S_BearerToken == <<"B", "e", "a", "r", "e", "r", "T", "o", "k", "e", "n">>
S_ClientId == <<"C", "l", "i", "e", "n", "t", "I", "d">>
S_ClientSecret == <<"C", "l", "i", "e", "n", "t", "S", "e", "c", "r", "e", "t">>
S_AuthorizationUrl == <<"A", "u", "t", "h", "o", "r", "i", "z", "a", "t", "i", "o", "n", "U", "r", "l">>
S_TokenUrl == <<"T", "o", "k", "e", "n", "U", "r", "l">>
S_Scopes == <<"S", "c", "o", "p", "e", "s">>

\* A property of meta.json: its name, input type and required flag (label,
\* description and default are texts nothing else depends on).
MetaProperty(name, type, required) == [name |-> name, type |-> type, required |-> required]

\* The properties one declared scheme adds in prepare_meta_context.
OAuthProperties(name, scheme) ==
    LET prop_base_name == _to_camel_case(name)
        flows == Get(scheme, "flows", <<>>)
        flow_type == IF flows = <<>> THEN "" ELSE flows[1].key
        flow_details == IF flows = <<>> THEN EmptyDict ELSE flows[1].value
    IN  <<MetaProperty(prop_base_name \o S_ClientId, "text", TRUE),
          MetaProperty(prop_base_name \o S_ClientSecret, "password", flow_type # "implicit")>>
        \o (IF "authorizationUrl" \in DOMAIN flow_details
            THEN <<MetaProperty(prop_base_name \o S_AuthorizationUrl, "text",
                                flow_type \in {"authorizationCode", "implicit"})>>
            ELSE <<>>)
        \o (IF "tokenUrl" \in DOMAIN flow_details
            THEN <<MetaProperty(prop_base_name \o S_TokenUrl, "text",
                                flow_type \in {"authorizationCode", "clientCredentials", "password"})>>
            ELSE <<>>)
        \o (IF "scopes" \in DOMAIN flow_details
            THEN <<MetaProperty(prop_base_name \o S_Scopes, "text", FALSE)>>
            ELSE <<>>)

SchemeProperties(name, scheme, required_schemes) ==
    LET scheme_type == Get(scheme, "type", "")
        required == name \in required_schemes
    IN  IF scheme_type = "apiKey"
        THEN <<MetaProperty(_to_camel_case(Get(scheme, "name", name)) \o S_ApiKey,
                            "password", required)>>
        ELSE IF scheme_type = "http"
        THEN IF Get(scheme, "scheme", "") = "basic"
             THEN <<MetaProperty(S_httpUsername, "text", required),
                    MetaProperty(S_httpPassword, "password", required)>>
             ELSE IF Get(scheme, "scheme", "") = "bearer"
             THEN <<MetaProperty(_to_camel_case(name) \o S_BearerToken, "password", required)>>
             ELSE <<>>
        ELSE IF scheme_type = "oauth2"
        THEN OAuthProperties(name, scheme)
        ELSE <<>>

RECURSIVE SecurityProperties(_, _)
SecurityProperties(schemes, required_schemes) ==
    IF schemes = <<>> THEN <<>>
    ELSE SchemeProperties(Head(schemes).key, Head(schemes).value, required_schemes)
         \o SecurityProperties(Tail(schemes), required_schemes)

\* prepare_meta_context: context['properties'], the base URL first.
prepare_meta_context(openapi_spec) ==
    <<MetaProperty(S_baseUrl, "text", TRUE)>>
    \o SecurityProperties(get_security_schemes(openapi_spec), used_scheme_names(openapi_spec))

-----------------------------------------------------------------------------
(* schema_generator: prepare_schema_context.                               *)
(* The mapping document is                                                 *)
(*   [json_ok, top |-> the top-level keys present,                         *)
(*    objectClasses |-> ordered dict object class name -> object class],   *)
(* an object class a dict with keys among ldapName, openApiSchemaRef,      *)
(* openApiSchemaName, primaryKeyLdapAttribute, attributes, and an          *)
(* attribute a dict with keys among ldapName, openApiPropertyName,         *)
(* jsonPath, typeOverride, readOnly, required.  A jsonPath is              *)
(* [expr |-> its text, parses |-> whether jsonpath_ng's parser accepts it  *)
(* (it raises JsonPathParserError otherwise)].                             *)

\* schema_generator.py imports jsonpath_ng at module load; without the library
\* the except branch uses `log` before line 21 defines it and the module (and
\* with it the engine) cannot be imported, so a run has JSONPATH_SUPPORTED.
JSONPATH_SUPPORTED == TRUE

S_RefPrefix == <<"#", "/", "c", "o", "m", "p", "o", "n", "e", "n", "t", "s", "/", "s", "c", "h", "e", "m", "a", "s", "/">>
S_DefPrefix == <<"#", "/", "d", "e", "f", "i", "n", "i", "t", "i", "o", "n", "s", "/">>

StartsWith(s, prefix) == Len(s) >= Len(prefix) /\ SubSeq(s, 1, Len(prefix)) = prefix

\* ORX_TYPE_MAP.get((openapi_type, openapi_format)); format "" is None, the
\* result "" is a missing key.
ORX_TYPE_MAP(openapi_type, openapi_format) ==
    CASE openapi_type = "string"  /\ openapi_format = ""          -> "string"
      [] openapi_type = "integer" /\ openapi_format = ""          -> "integer"
      [] openapi_type = "number"  /\ openapi_format = ""          -> "double"
      [] openapi_type = "boolean" /\ openapi_format = ""          -> "boolean"
      [] openapi_type = "array"   /\ openapi_format = ""          -> "string"
      [] openapi_type = "object"  /\ openapi_format = ""          -> "string"
      [] openapi_type = "string"  /\ openapi_format = "date-time" -> "generalizedTime"
      [] openapi_type = "string"  /\ openapi_format = "date"      -> "generalizedTime"
      [] openapi_type = "string"  /\ openapi_format = "byte"      -> "binary"
      [] openapi_type = "string"  /\ openapi_format = "binary"    -> "binary"
      [] openapi_type = "integer" /\ openapi_format = "int32"     -> "integer"
      [] openapi_type = "integer" /\ openapi_format = "int64"     -> "long"
      [] openapi_type = "number"  /\ openapi_format = "float"     -> "double"
      [] openapi_type = "number"  /\ openapi_format = "double"    -> "double"
      [] OTHER -> ""

DEFAULT_ORX_TYPE == "string"

\* Returns None (EmptyDict) for a reference that is not local, else schemas.get.
_get_openapi_schema_details(openapi_spec, schema_ref) ==
    IF schema_ref = <<>>
       \/ (~StartsWith(schema_ref, S_RefPrefix) /\ ~StartsWith(schema_ref, S_DefPrefix))
    THEN EmptyDict
    ELSE DictGet(get_schemas(openapi_spec), SplitLast(schema_ref, "/"), EmptyDict)

\* [raises |-> "" or the exception that leaves the function, value |-> the
\* definition found, EmptyDict for None].  A path the parser rejects gives None
\* (JsonPathParserError is caught); for a path it accepts, line 85 evaluates
\* jsonpath_ng.fields.Fields, and the module never binds the name jsonpath_ng
\* (it imports `parse` and `JsonPathParserError` from it): NameError, which
\* the except clause does not list.
_get_openapi_definition_by_path(schema, json_path) ==
    IF ~JSONPATH_SUPPORTED THEN [raises |-> "", value |-> EmptyDict]
    ELSE IF ~json_path.parses THEN [raises |-> "", value |-> EmptyDict]
    ELSE [raises |-> "NameError", value |-> EmptyDict]

\* A variant that looks a list-typed field up by its own type and format.
infer_attribute_type_ignoring_items(prop_details, attr_mapping) ==
    IF Get(attr_mapping, "typeOverride", "") # "" THEN attr_mapping["typeOverride"]
    ELSE LET openapi_type   == Get(prop_details, "type", "string")
             openapi_format == Get(prop_details, "format", "")
         IN  IF ORX_TYPE_MAP(openapi_type, openapi_format) # ""
             THEN ORX_TYPE_MAP(openapi_type, openapi_format)
             ELSE IF ORX_TYPE_MAP(openapi_type, "") # ""
                  THEN ORX_TYPE_MAP(openapi_type, "")
                  ELSE DEFAULT_ORX_TYPE

_infer_attribute_type(prop_details, attr_mapping) ==
    IF Get(attr_mapping, "typeOverride", "") # "" THEN attr_mapping["typeOverride"]
    ELSE LET openapi_type   == Get(prop_details, "type", "string")
             openapi_format == Get(prop_details, "format", "")
         IN  IF openapi_type = "array"
             THEN LET items_details == Get(prop_details, "items", EmptyDict)
                      items_type    == Get(items_details, "type", "string")
                      items_format  == Get(items_details, "format", "")
                  IN  IF ORX_TYPE_MAP(items_type, items_format) # ""
                      THEN ORX_TYPE_MAP(items_type, items_format)
                      ELSE IF ORX_TYPE_MAP(items_type, "") # ""
                           THEN ORX_TYPE_MAP(items_type, "")
                           ELSE DEFAULT_ORX_TYPE
             ELSE IF ORX_TYPE_MAP(openapi_type, openapi_format) # ""
                  THEN ORX_TYPE_MAP(openapi_type, openapi_format)
                  ELSE IF ORX_TYPE_MAP(openapi_type, "") # ""
                       THEN ORX_TYPE_MAP(openapi_type, "")
                       ELSE DEFAULT_ORX_TYPE

\* The source schema of an object class; EmptyDict when the loop `continue`s
\* (no reference and no name, or nothing found).
SourceSchema(openapi_spec, oc_mapping) ==
    LET openapi_schema_ref  == Get(oc_mapping, "openApiSchemaRef", <<>>)
        openapi_schema_name == Get(oc_mapping, "openApiSchemaName", <<>>)
    IN  IF openapi_schema_ref # <<>>
        THEN _get_openapi_schema_details(openapi_spec, openapi_schema_ref)
        ELSE IF openapi_schema_name # <<>>
             THEN DictGet(get_schemas(openapi_spec), openapi_schema_name, EmptyDict)
             ELSE EmptyDict

PyBool(b) == IF b THEN "True" ELSE "False"

\* A variant in which a typeOverride makes the attribute single-valued.
MappedAttributeOverrideScalar(source_schema, attr_mapping, primary_key_ldap_attr) ==
    LET ldap_attr_name    == Get(attr_mapping, "ldapName", "")
        json_path         == Get(attr_mapping, "jsonPath", EmptyDict)
        openapi_prop_name == Get(attr_mapping, "openApiPropertyName", <<>>)
        by_path  == DOMAIN json_path # {} /\ JSONPATH_SUPPORTED
        looked   == IF by_path THEN _get_openapi_definition_by_path(source_schema, json_path)
                    ELSE IF openapi_prop_name # <<>>
                         THEN [raises |-> "",
                               value  |-> DictGet(Get(source_schema, "properties", <<>>),
                                                  openapi_prop_name, EmptyDict)]
                         ELSE [raises |-> "", value |-> EmptyDict]
        prop_details == looked.value
    IN  IF ldap_attr_name = "" THEN [raises |-> "", skipped |-> TRUE]
        ELSE IF DOMAIN json_path = {} /\ openapi_prop_name = <<>>
             THEN [raises |-> "", skipped |-> TRUE]
        ELSE IF looked.raises # "" THEN [raises |-> looked.raises, skipped |-> FALSE]
        ELSE [raises    |-> "",
              skipped   |-> FALSE,
              found     |-> DOMAIN prop_details # {},
              attribute |->
                  [ldapName    |-> ldap_attr_name,
                   type        |-> _infer_attribute_type(prop_details, attr_mapping),
                   primaryKey  |-> (ldap_attr_name = primary_key_ldap_attr),
                   multiValued |-> (Get(prop_details, "type", "") = "array"
                                    /\ "typeOverride" \notin DOMAIN attr_mapping),
                   readOnly    |-> IF "readOnly" \in DOMAIN attr_mapping
                                   THEN PyBool(attr_mapping["readOnly"]) ELSE "None",
                   required    |-> IF "required" \in DOMAIN attr_mapping
                                   THEN attr_mapping["required"]
                                   ELSE Get(prop_details, "required", FALSE)]]

\* One pass of the loop over the mapped attributes:
\* [raises, skipped, found |-> a definition was found, attribute].
MappedAttribute(source_schema, attr_mapping, primary_key_ldap_attr) ==
    LET ldap_attr_name    == Get(attr_mapping, "ldapName", "")
        json_path         == Get(attr_mapping, "jsonPath", EmptyDict)
        openapi_prop_name == Get(attr_mapping, "openApiPropertyName", <<>>)
        by_path  == DOMAIN json_path # {} /\ JSONPATH_SUPPORTED
        looked   == IF by_path THEN _get_openapi_definition_by_path(source_schema, json_path)
                    ELSE IF openapi_prop_name # <<>>
                         THEN [raises |-> "",
                               value  |-> DictGet(Get(source_schema, "properties", <<>>),
                                                  openapi_prop_name, EmptyDict)]
                         ELSE [raises |-> "", value |-> EmptyDict]
        prop_details == looked.value
    IN  IF ldap_attr_name = "" THEN [raises |-> "", skipped |-> TRUE]
        ELSE IF DOMAIN json_path = {} /\ openapi_prop_name = <<>>
             THEN [raises |-> "", skipped |-> TRUE]
        ELSE IF looked.raises # "" THEN [raises |-> looked.raises, skipped |-> FALSE]
        ELSE [raises    |-> "",
              skipped   |-> FALSE,
              found     |-> DOMAIN prop_details # {},
              attribute |->
                  [ldapName    |-> ldap_attr_name,
                   type        |-> _infer_attribute_type(prop_details, attr_mapping),
                   primaryKey  |-> (ldap_attr_name = primary_key_ldap_attr),
                   multiValued |-> (Get(prop_details, "type", "") = "array"),
                   readOnly    |-> IF "readOnly" \in DOMAIN attr_mapping
                                   THEN PyBool(attr_mapping["readOnly"]) ELSE "None",
                   required    |-> IF "required" \in DOMAIN attr_mapping
                                   THEN attr_mapping["required"]
                                   ELSE Get(prop_details, "required", FALSE)]]

\* The loop over mapped_attributes_list: [raises, attributes, gaps |-> the
\* attributes no definition was found for].
RECURSIVE MappedAttributes(_, _, _, _)
MappedAttributes(source_schema, mapped_attributes_list, primary_key_ldap_attr, acc) ==
    IF mapped_attributes_list = <<>> THEN acc
    ELSE LET r == MappedAttribute(source_schema, Head(mapped_attributes_list), primary_key_ldap_attr)
         IN  IF r.raises # "" THEN [acc EXCEPT !.raises = r.raises]
             ELSE IF r.skipped
                  THEN MappedAttributes(source_schema, Tail(mapped_attributes_list),
                                        primary_key_ldap_attr, acc)
                  ELSE MappedAttributes(source_schema, Tail(mapped_attributes_list),
                                        primary_key_ldap_attr,
                                        [acc EXCEPT !.attributes = Append(@, r.attribute),
                                                    !.gaps = IF r.found THEN @
                                                             ELSE @ \cup {r.attribute.ldapName}])

\* The body of the loop over the object classes, for one of them:
\* outcome "continue" (not emitted), "append" (emitted) or "raise".
ObjectClassOutcome(openapi_spec, ldap_oc_name, oc_mapping) ==
    LET source_schema == SourceSchema(openapi_spec, oc_mapping)
        primary_key_ldap_attr == Get(oc_mapping, "primaryKeyLdapAttribute", "")
        r == MappedAttributes(source_schema, Get(oc_mapping, "attributes", <<>>),
                              primary_key_ldap_attr,
                              [raises |-> "", attributes |-> <<>>, gaps |-> {}])
        any_primary == \E i \in 1..Len(r.attributes) : r.attributes[i].primaryKey
    IN  IF DOMAIN oc_mapping = {}
        THEN [outcome |-> "continue", diagnostics |-> {[kind |-> "missing_mapping", oc |-> ldap_oc_name]}]
        ELSE IF DOMAIN source_schema = {}
        THEN [outcome |-> "continue", diagnostics |-> {[kind |-> "no_source_schema", oc |-> ldap_oc_name]}]
        ELSE IF r.raises # ""
        THEN [outcome |-> "raise", raises |-> r.raises, diagnostics |-> {}]
        ELSE LET gaps == {[kind |-> "definition_not_found", oc |-> ldap_oc_name, attr |-> a] : a \in r.gaps}
             IN  IF primary_key_ldap_attr # "" /\ ~any_primary
                 THEN [outcome |-> "continue",
                       diagnostics |-> gaps \cup {[kind |-> "primary_key_not_found", oc |-> ldap_oc_name]}]
                 ELSE [outcome |-> "append",
                       object_class |-> [ldapName |-> ldap_oc_name, attributes |-> r.attributes],
                       diagnostics |-> gaps \cup (IF primary_key_ldap_attr = ""
                                                  THEN {[kind |-> "no_primary_key", oc |-> ldap_oc_name]}
                                                  ELSE {})]

-----------------------------------------------------------------------------
(* The loaders: json.load and jsonschema.validate against the fixed schema *)

\* OPENAPI_BASIC_SCHEMA: info and paths required, the listed properties of the
\* declared JSON type, exactly one of openapi / swagger.
ValidOpenApi(spec_data) ==
    /\ {"info", "paths"} \subseteq spec_data.top
    /\ spec_data.ill_typed = {}
    /\ ("openapi" \in spec_data.top) # ("swagger" \in spec_data.top)

\* load_openapi_spec returns the document or raises.
load_openapi_spec(doc) == doc.json_ok /\ ValidOpenApi(doc)

\* MAPPING_SCHEMA: dnStructure (with baseDnSuffix and rdnAttribute) and
\* objectClasses required; an object class needs ldapName, attributes and
\* exactly one of openApiSchemaRef / openApiSchemaName; an attribute needs
\* ldapName and exactly one of openApiPropertyName / jsonPath.
ValidAttribute(attr) ==
    /\ "ldapName" \in DOMAIN attr
    /\ ("openApiPropertyName" \in DOMAIN attr) # ("jsonPath" \in DOMAIN attr)

ValidObjectClass(oc) ==
    /\ {"ldapName", "attributes"} \subseteq DOMAIN oc
    /\ ("openApiSchemaRef" \in DOMAIN oc) # ("openApiSchemaName" \in DOMAIN oc)
    /\ \A i \in 1..Len(oc["attributes"]) : ValidAttribute(oc["attributes"][i])

ValidMapping(mapping_data) ==
    /\ {"dnStructure", "objectClasses"} \subseteq mapping_data.top
    /\ {"baseDnSuffix", "rdnAttribute"} \subseteq mapping_data.dnStructure
    /\ \A i \in 1..Len(mapping_data.objectClasses) :
           ValidObjectClass(mapping_data.objectClasses[i].value)

\* A variant that parses the document and validates nothing.
load_mapping_spec_unvalidated(doc) == doc.json_ok

load_mapping_spec(doc) == doc.json_ok /\ ValidMapping(doc)

\* MappingSpec.get_ldap_object_classes / get_object_class_mapping
get_ldap_object_classes(mapping_spec) ==
    [i \in 1..Len(mapping_spec.objectClasses) |-> mapping_spec.objectClasses[i].key]

get_object_class_mapping(mapping_spec, ldap_oc) ==
    DictGet(mapping_spec.objectClasses, ldap_oc, EmptyDict)

-----------------------------------------------------------------------------
(* Actions: run_generation and GeneratorEngine.generate_all *)

\* 1. Load and Parse Inputs (the API document)
LoadOpenApi ==
    /\ pc = "load_openapi"
    /\ pc' = IF load_openapi_spec(openapi) THEN "load_mapping" ELSE "exit1"
    /\ UNCHANGED <<openapi, mapping, schema_extraction, properties, auth_details,
                   output_dir, engine, files,
                   operations, mod_i, generated_models, models, cl_i, methods,
                   client_method_metadata, sch_i, object_classes, schema_context,
                   diagnostics>>

\* 1. Load and Parse Inputs (the mapping document)
LoadMapping ==
    /\ pc = "load_mapping"
    /\ pc' = IF load_mapping_spec(mapping) THEN "prepare_output" ELSE "exit1"
    /\ UNCHANGED <<openapi, mapping, schema_extraction, properties, auth_details,
                   output_dir, engine, files,
                   operations, mod_i, generated_models, models, cl_i, methods,
                   client_method_metadata, sch_i, object_classes, schema_context,
                   diagnostics>>

\* 2. Prepare Output Directory
PrepareOutput ==
    /\ pc = "prepare_output"
    /\ output_dir' = IF output_dir = "absent" THEN "created" ELSE output_dir
    /\ pc' = "init_engine"
    /\ UNCHANGED <<openapi, mapping, schema_extraction, properties, auth_details,
                   engine, files,
                   operations, mod_i, generated_models, models, cl_i, methods,
                   client_method_metadata, sch_i, object_classes, schema_context,
                   diagnostics>>

\* 3. Initialize Generator Engine
InitEngine ==
    /\ pc = "init_engine"
    /\ engine' = TRUE
    /\ pc' = "create_dirs"
    /\ UNCHANGED <<openapi, mapping, schema_extraction, properties, auth_details,
                   output_dir, files,
                   operations, mod_i, generated_models, models, cl_i, methods,
                   client_method_metadata, sch_i, object_classes, schema_context,
                   diagnostics>>

\* generate_all: _create_output_dirs
CreateOutputDirs ==
    /\ pc = "create_dirs"
    /\ files' = Append(files, [kind |-> "directories"])
    /\ pc' = "pom"
    /\ UNCHANGED <<openapi, mapping, schema_extraction, properties, auth_details,
                   output_dir, engine,
                   operations, mod_i, generated_models, models, cl_i, methods,
                   client_method_metadata, sch_i, object_classes, schema_context,
                   diagnostics>>

\* _render_template: the file is written, or any exception (a template that is
\* missing or fails on the context, an I/O error) ends the process: sys.exit(1).
RenderOutcomes == BOOLEAN

\* generate_all: _generate_pom_xml
GeneratePomXml ==
    /\ pc = "pom"
    /\ \E rendered \in RenderOutcomes :
          IF rendered
          THEN files' = Append(files, [kind |-> "pom.xml"]) /\ pc' = "meta"
          ELSE files' = files /\ pc' = "exit1"
    /\ UNCHANGED <<openapi, mapping, schema_extraction, properties, auth_details,
                   output_dir, engine,
                   operations, mod_i, generated_models, models, cl_i, methods,
                   client_method_metadata, sch_i, object_classes, schema_context,
                   diagnostics>>

\* generate_all: _generate_meta_json
GenerateMetaJson ==
    /\ pc = "meta"
    /\ properties' = prepare_meta_context(openapi)
    /\ \E rendered \in RenderOutcomes :
          IF rendered
          THEN files' = Append(files, [kind |-> "meta.json"]) /\ pc' = "schema"
          ELSE files' = files /\ pc' = "exit1"
    /\ UNCHANGED <<openapi, mapping, schema_extraction, auth_details, output_dir, engine,
                   operations, mod_i, generated_models, models, cl_i, methods,
                   client_method_metadata, sch_i, object_classes, schema_context,
                   diagnostics>>

-----------------------------------------------------------------------------
(* Actions: _generate_schema, prepare_schema_context *)

\* One pass of the loop over defined_ldap_ocs.  An exception leaves
\* prepare_schema_context and is caught by _generate_schema (except Exception),
\* which prints it and returns: nothing is rendered and generate_all goes on.
SchemaStep ==
    /\ pc = "schema"
    /\ sch_i <= Len(get_ldap_object_classes(mapping))
    /\ LET ldap_oc_name == get_ldap_object_classes(mapping)[sch_i]
           out == ObjectClassOutcome(openapi, ldap_oc_name,
                                     get_object_class_mapping(mapping, ldap_oc_name))
       IN  /\ diagnostics' = diagnostics \cup out.diagnostics
                             \cup (IF out.outcome = "raise"
                                   THEN {[kind |-> "error_generating_schema", raises |-> out.raises]}
                                   ELSE {})
           /\ object_classes' = IF out.outcome = "append"
                                THEN Append(object_classes, out.object_class)
                                ELSE object_classes
           /\ sch_i' = IF out.outcome = "raise" THEN sch_i ELSE sch_i + 1
           /\ pc' = IF out.outcome = "raise" THEN "java_ops" ELSE pc
    /\ UNCHANGED <<openapi, mapping, schema_extraction, properties, auth_details,
                   output_dir, engine, files,
                   operations, mod_i, generated_models, models, cl_i, methods,
                   client_method_metadata, schema_context>>

\* return {"object_classes": object_classes}, then schema.orx is rendered.
SchemaReturn ==
    /\ pc = "schema"
    /\ sch_i > Len(get_ldap_object_classes(mapping))
    /\ schema_context' = [returned |-> TRUE, object_classes |-> object_classes]
    /\ \E rendered \in RenderOutcomes :
          IF rendered
          THEN files' = Append(files, [kind |-> "schema.orx"]) /\ pc' = "java_ops"
          ELSE files' = files /\ pc' = "exit1"
    /\ UNCHANGED <<openapi, mapping, schema_extraction, properties, auth_details,
                   output_dir, engine,
                   operations, mod_i, generated_models, models, cl_i, methods,
                   client_method_metadata, sch_i, object_classes, diagnostics>>

-----------------------------------------------------------------------------
(* Actions: _generate_java_code, generate_all_java_files.  Nothing catches *)
(* an exception here, and a failed render exits the process.               *)

\* operations = _determine_operations(openapi_spec, schema_extraction_enabled)
DetermineOperations ==
    /\ pc = "java_ops"
    /\ operations' = _determine_operations(openapi, schema_extraction)
    /\ pc' = "java_models"
    /\ UNCHANGED <<openapi, mapping, schema_extraction, properties, auth_details,
                   output_dir, engine, files,
                   mod_i, generated_models, models, cl_i, methods,
                   client_method_metadata, sch_i, object_classes, schema_context,
                   diagnostics>>

\* _generate_model_pojos: one pass of the loop over schemas.items()
ModelPojoStep ==
    /\ pc = "java_models"
    /\ mod_i <= Len(get_schemas(openapi))
    /\ LET schema_name    == get_schemas(openapi)[mod_i].key
           schema_details == get_schemas(openapi)[mod_i].value
           context        == PojoContext(schema_name, schema_details)
       IN  IF IsPojoSchema(schema_details)
           THEN /\ generated_models' = generated_models \cup {context.class_name}
                /\ \E rendered \in RenderOutcomes :
                      IF rendered
                      THEN /\ models' = Append(models, context)
                           /\ files' = Append(files, [kind |-> "pojo", class_name |-> context.class_name])
                           /\ pc' = pc
                      ELSE /\ models' = models
                           /\ files' = files
                           /\ pc' = "exit1"
           ELSE UNCHANGED <<generated_models, models, files, pc>>
    /\ mod_i' = mod_i + 1
    /\ UNCHANGED <<openapi, mapping, schema_extraction, properties, auth_details,
                   output_dir, engine,
                   operations, cl_i, methods, client_method_metadata,
                   sch_i, object_classes, schema_context, diagnostics>>

\* _generate_model_pojos returns generated_models (at once when there is no schema)
ModelPojosReturn ==
    /\ pc = "java_models"
    /\ mod_i > Len(get_schemas(openapi))
    /\ pc' = "java_base"
    /\ UNCHANGED <<openapi, mapping, schema_extraction, properties, auth_details,
                   output_dir, engine, files,
                   operations, mod_i, generated_models, models, cl_i, methods,
                   client_method_metadata, sch_i, object_classes, schema_context,
                   diagnostics>>

\* _generate_base_request_response_pojos: BackendRequest, then BackendResponse
BasePojos ==
    /\ pc = "java_base"
    /\ \E written \in 0..2 :
          /\ files' = files \o SubSeq(<<[kind |-> "BackendRequest"], [kind |-> "BackendResponse"]>>,
                                      1, written)
          /\ pc' = IF written = 2 THEN "java_client" ELSE "exit1"
    /\ UNCHANGED <<openapi, mapping, schema_extraction, properties, auth_details,
                   output_dir, engine,
                   operations, mod_i, generated_models, models, cl_i, methods,
                   client_method_metadata, sch_i, object_classes, schema_context,
                   diagnostics>>

\* _generate_backend_client: one pass of the inner loop, over one key of one
\* path item.  A key that is no HTTP method is skipped.
ClientStep ==
    /\ pc = "java_client"
    /\ cl_i <= Len(ClientEntries(get_paths(openapi)))
    /\ LET entry == ClientEntries(get_paths(openapi))[cl_i]
       IN  IF StrUpper(entry.http_method) \notin HTTP_METHODS
           THEN UNCHANGED <<methods, client_method_metadata>>
           ELSE \E path_params_list \in ListOfSet(PathParamsInSig(MethodData(entry, <<>>).params)) :
                   /\ methods' = Append(methods, MethodData(entry, path_params_list))
                   /\ client_method_metadata' =
                          DictPut(client_method_metadata,
                                  OperationId(entry.http_method, entry.path_template, entry.op_details),
                                  MethodMetadata(entry))
    /\ cl_i' = cl_i + 1
    /\ UNCHANGED <<openapi, mapping, schema_extraction, properties, auth_details,
                   pc, output_dir, engine, files,
                   operations, mod_i, generated_models, models,
                   sch_i, object_classes, schema_context, diagnostics>>

\* _generate_backend_client after the loop: the testConnection method is
\* appended and the client class is rendered.
ClientReturn ==
    /\ pc = "java_client"
    /\ cl_i > Len(ClientEntries(get_paths(openapi)))
    /\ methods' = Append(methods, TestConnectMethod(methods))
    /\ auth_details' = _prepare_auth_details(openapi)
    /\ \E rendered \in RenderOutcomes :
          IF rendered
          THEN files' = Append(files, [kind |-> "client"]) /\ pc' = "java_converters"
          ELSE files' = files /\ pc' = "exit1"
    /\ UNCHANGED <<openapi, mapping, schema_extraction, properties, output_dir, engine,
                   operations, mod_i, generated_models, models, cl_i,
                   client_method_metadata, sch_i, object_classes, schema_context,
                   diagnostics>>

\* _generate_type_converters: the request converter, then the response converter
TypeConverters ==
    /\ pc = "java_converters"
    /\ \E written \in 0..2 :
          /\ files' = files
                       \o SubSeq(<<[kind |-> "request_converter",
                                    client_method_metadata_json |-> json_dumps(client_method_metadata)],
                                   [kind |-> "response_converter",
                                    client_method_metadata_json |-> json_dumps(client_method_metadata)]>>,
                                 1, written)
          /\ pc' = IF written = 2 THEN "java_connector" ELSE "exit1"
    /\ UNCHANGED <<openapi, mapping, schema_extraction, properties, auth_details,
                   output_dir, engine,
                   operations, mod_i, generated_models, models, cl_i, methods,
                   client_method_metadata, sch_i, object_classes, schema_context,
                   diagnostics>>

\* A variant whose connector is given the metadata of no operation.
MainConnectorWithoutMetadata ==
    /\ pc = "java_connector"
    /\ \E rendered \in RenderOutcomes :
          IF rendered
          THEN /\ files' = Append(files, [kind |-> "connector",
                                           client_method_metadata_json |-> json_dumps(<<>>)])
               /\ pc' = "mapping_config"
          ELSE files' = files /\ pc' = "exit1"
    /\ UNCHANGED <<openapi, mapping, schema_extraction, properties, auth_details,
                   output_dir, engine,
                   operations, mod_i, generated_models, models, cl_i, methods,
                   client_method_metadata, sch_i, object_classes, schema_context,
                   diagnostics>>

\* _generate_main_connector
MainConnector ==
    /\ pc = "java_connector"
    /\ \E rendered \in RenderOutcomes :
          IF rendered
          THEN /\ files' = Append(files, [kind |-> "connector",
                                           client_method_metadata_json |-> json_dumps(client_method_metadata)])
               /\ pc' = "mapping_config"
          ELSE files' = files /\ pc' = "exit1"
    /\ UNCHANGED <<openapi, mapping, schema_extraction, properties, auth_details,
                   output_dir, engine,
                   operations, mod_i, generated_models, models, cl_i, methods,
                   client_method_metadata, sch_i, object_classes, schema_context,
                   diagnostics>>

\* generate_all: _write_mapping_config; an exception is printed and swallowed.
WriteMappingConfig ==
    /\ pc = "mapping_config"
    /\ \E written \in BOOLEAN :
          /\ files' = IF written THEN Append(files, [kind |-> "mapping_config.json"]) ELSE files
          /\ diagnostics' = IF written THEN diagnostics
                            ELSE diagnostics \cup {[kind |-> "error_writing_mapping_config"]}
    /\ pc' = "report"
    /\ UNCHANGED <<openapi, mapping, schema_extraction, properties, auth_details,
                   output_dir, engine,
                   operations, mod_i, generated_models, models, cl_i, methods,
                   client_method_metadata, sch_i, object_classes, schema_context>>

\* "Connector generation finished successfully!" and the process ends with 0.
ReportSuccess ==
    /\ pc = "report"
    /\ pc' = "exit0"
    /\ UNCHANGED <<openapi, mapping, schema_extraction, properties, auth_details,
                   output_dir, engine, files,
                   operations, mod_i, generated_models, models, cl_i, methods,
                   client_method_metadata, sch_i, object_classes, schema_context,
                   diagnostics>>

-----------------------------------------------------------------------------
(* Input documents *)

MaxOpsEntries == 3     \* SpecOps: path item entries per document
MaxOps == 2            \* SpecClient: operations per document
MaxParams == 2         \* SpecClient: parameters per operation
MaxCommonParams == 1   \* SpecClient: parameters per path item
MaxSchemas == 2        \* SpecClient: schemas per schema table
MaxAttrs == 2          \* SpecSchema: attributes per object class

\* The sequences over S of length at most n.
SeqsUpTo(S, n) == UNION {[1..k -> S] : k \in 0..n}

\* The ordered dict path -> path item that a list of (path, key, details) is
\* the flattening of: an entry of a path already present joins its path item.
AddEntry(paths, e) ==
    IF DictHas(paths, e.path)
    THEN DictPut(paths, e.path, DictPut(DictGet(paths, e.path, <<>>), e.key, e.details))
    ELSE Append(paths, [key |-> e.path, value |-> <<[key |-> e.key, value |-> e.details]>>])

RECURSIVE PathsOf(_, _)
PathsOf(entries, acc) ==
    IF entries = <<>> THEN acc ELSE PathsOf(Tail(entries), AddEntry(acc, Head(entries)))

\* A document that passes validation, with these paths and schemas.
ApiDoc(paths, schemas) ==
    [json_ok |-> TRUE, top |-> {"openapi", "info", "paths", "components"}, ill_typed |-> {},
     paths |-> paths, schemas |-> schemas]

P_a == <<"/", "a">>
P_b == <<"/", "b">>
P_a_b == <<"/", "a", "/", "b">>
P_aub == <<"/", "a", "_", "b">>
P_a_qb == <<"/", "a", "/", "{", "b", "}">>
P_a_qb_qc == <<"/", "a", "/", "{", "b", "}", "/", "{", "c", "}">>

N_Pet == <<"P", "e", "t">>
N_pet == <<"p", "e", "t">>
N_Tag == <<"T", "a", "g">>
N_Gone == <<"G", "o", "n", "e">>
N_name == <<"n", "a", "m", "e">>
N_id == <<"i", "d">>
N_tags == <<"t", "a", "g", "s">>
N_nope == <<"n", "o", "p", "e">>
N_b == <<"b">>
N_c == <<"c">>
N_q == <<"q">>
Id_getA == <<"g", "e", "t", "A">>

RefTo(schema_name) == [ref |-> S_RefPrefix \o schema_name]

\* --- documents for _determine_operations: keys under two paths
OpsKeys == {K_get, K_GET, K_post, K_put, K_patch, K_delete, K_head, K_parameters}

OpsDocs ==
    {ApiDoc(PathsOf(entries, <<>>), <<>>) :
        entries \in SeqsUpTo([path : {P_a, P_b}, key : OpsKeys, details : {EmptyDict}],
                             MaxOpsEntries)}

\* --- documents for the client: operation names
Described == ("200" :> [description |-> "ok"])

NamedOp(id) ==
    IF id = <<>> THEN [responses |-> Described]
    ELSE [operationId |-> id, responses |-> Described]

NameEntries ==
    {[path |-> p, key |-> k, details |-> NamedOp(id)] :
        p \in {P_a_b, P_aub, P_a_qb}, k \in {K_get, K_GET, K_post}, id \in {<<>>, Id_getA}}

NameDocs == {ApiDoc(PathsOf(entries, <<>>), <<>>) : entries \in SeqsUpTo(NameEntries, MaxOps)}

\* --- documents for the client: request and response types
JsonOf(schema) == [content |-> ("application/json" :> [schema |-> schema])]

PetSchemas ==
    <<[key |-> N_Pet, value |-> [type |-> "object",
                                 properties |-> <<[key |-> N_id, value |-> [type |-> "integer", format |-> "int64"]],
                                                  [key |-> N_name, value |-> [type |-> "string"]]>>]],
      [key |-> N_pet, value |-> [properties |-> <<[key |-> N_tags,
                                                   value |-> [type |-> "array", items |-> RefTo(N_Tag)]]>>]],
      [key |-> N_Tag, value |-> [type |-> "string"]]>>

TypedOps ==
    { [responses |-> ("200" :> JsonOf(RefTo(N_Pet)))],
      [operationId |-> Id_getA, responses |-> ("200" :> JsonOf(RefTo(N_Pet)))],
      [operationId |-> Id_getA, responses |-> Described],
      [responses |-> ("201" :> JsonOf([type |-> "array", items |-> RefTo(N_Pet)]))],
      [responses |-> ("204" :> [description |-> "gone"])],
      [responses |-> ("200" :> JsonOf(RefTo(N_Pet))) @@ ("204" :> [description |-> "gone"])],
      [responses |-> ("200" :> JsonOf(RefTo(N_Tag)))],
      [requestBody |-> JsonOf(RefTo(N_Pet)), responses |-> ("200" :> JsonOf([type |-> "string"]))],
      [requestBody |-> [content |-> ("application/xml" :> [schema |-> RefTo(N_Pet)])]] }

TypeEntries ==
    {[path |-> P_a_qb, key |-> K_get, details |-> d] : d \in TypedOps}
    \cup {[path |-> P_a_qb, key |-> K_delete, details |-> d] :
             d \in {t \in TypedOps : "204" \in DOMAIN Get(t, "responses", EmptyDict)}}

TypeDocs == {ApiDoc(PathsOf(entries, <<>>), PetSchemas) : entries \in SeqsUpTo(TypeEntries, MaxOps)}

\* --- documents for the client: path-level and operation-level parameters
ParamSet ==
    { [name |-> N_b, in |-> "path", schema |-> [type |-> "string"]],
      [name |-> N_b, in |-> "path", schema |-> [type |-> "integer"]],
      [name |-> N_c, in |-> "path", schema |-> [type |-> "string"]],
      [name |-> N_q, in |-> "query", schema |-> [type |-> "boolean"]],
      [name |-> N_q, in |-> "header", schema |-> [type |-> "string"]] }

\* Three of them: b in the path, q in the query, q in a header.
ParamAt(n) ==
    CASE n = 1 -> [name |-> N_b, in |-> "path", schema |-> [type |-> "string"]]
      [] n = 2 -> [name |-> N_q, in |-> "query", schema |-> [type |-> "boolean"]]
      [] OTHER -> [name |-> N_q, in |-> "header", schema |-> [type |-> "string"]]

ParamDocs ==
    {ApiDoc(<<[key |-> P_a_qb_qc,
               value |-> (IF common = <<>> THEN <<>>
                          ELSE <<[key |-> K_parameters, value |-> common]>>)
                         \o <<[key |-> K_get,
                               value |-> IF own = <<>> THEN [responses |-> Described]
                                         ELSE [parameters |-> own, responses |-> Described]]>>]>>,
            <<>>) :
        common \in SeqsUpTo(ParamSet, MaxCommonParams), own \in SeqsUpTo(ParamSet, MaxParams)}

\* --- documents for the client: request bodies next to parameters.  A POST
\* with some parameters and a request body (JSON with a schema, XML, JSON
\* without a schema, without content) or none, alone or followed by a PUT with
\* a path parameter and an XML body.
BodySet ==
    {JsonOf(RefTo(N_Pet)),
     [content |-> ("application/xml" :> [schema |-> RefTo(N_Pet)])],
     [content |-> ("application/json" :> [example |-> TRUE])],
     [description |-> "a body"]}

BodyOps ==
    {[responses |-> Described] @@ params @@ body :
        params \in {EmptyDict,
                    [parameters |-> <<ParamAt(1)>>],
                    [parameters |-> <<ParamAt(1), ParamAt(2)>>],
                    [parameters |-> <<ParamAt(3)>>]},
        body \in {EmptyDict} \cup {[requestBody |-> b] : b \in BodySet}}

BodyDocs ==
    {ApiDoc(<<[key |-> P_a_qb_qc, value |-> <<[key |-> K_post, value |-> op]>> \o rest]>>, PetSchemas) :
        op \in BodyOps,
        rest \in {<<>>,
                  <<[key |-> K_put,
                     value |-> [parameters |-> <<ParamAt(1)>>, responses |-> Described,
                                requestBody |-> [content |-> ("application/xml" :> [schema |-> RefTo(N_Pet)])]]]>>}}

\* --- documents for the client: schema tables
SchemaSet ==
    {PetSchemas[i] : i \in 1..Len(PetSchemas)}
    \cup {[key |-> N_Gone, value |-> RefTo(N_Pet)],
          [key |-> N_Tag, value |-> [type |-> "object", properties |-> <<[key |-> N_pet, value |-> RefTo(N_pet)]>>]]}

UniqueKeys(d) == \A i, j \in 1..Len(d) : d[i].key = d[j].key => i = j

SchemaDocs ==
    {ApiDoc(<<>>, schemas) : schemas \in {t \in SeqsUpTo(SchemaSet, MaxSchemas) : UniqueKeys(t)}}

ClientDocs == NameDocs \cup TypeDocs \cup ParamDocs \cup BodyDocs \cup SchemaDocs

\* --- mapping documents for prepare_schema_context
UserSchemas ==
    <<[key |-> N_Pet, value |-> [type |-> "object",
                                 required |-> <<N_id>>,
                                 properties |-> <<[key |-> N_id, value |-> [type |-> "integer", format |-> "int64",
                                                                            readOnly |-> TRUE]],
                                                  [key |-> N_name, value |-> [type |-> "string", required |-> TRUE]],
                                                  [key |-> N_tags, value |-> [type |-> "array",
                                                                              items |-> [type |-> "string", format |-> "date"]]]>>]]>>

AttrSet ==
    { [ldapName |-> "uid", openApiPropertyName |-> N_id],
      [ldapName |-> "uid", openApiPropertyName |-> N_nope],
      [ldapName |-> "cn", openApiPropertyName |-> N_name],
      [ldapName |-> "cn", openApiPropertyName |-> N_tags, readOnly |-> TRUE, required |-> FALSE,
       typeOverride |-> "string"],
      [ldapName |-> "mail", jsonPath |-> [expr |-> "$.contact.email", parses |-> TRUE]],
      [ldapName |-> "mail", jsonPath |-> [expr |-> "$.tags[*]", parses |-> TRUE]],
      [ldapName |-> "mail", jsonPath |-> [expr |-> "$.contact.", parses |-> FALSE], typeOverride |-> "binary"] }

ObjectClassSet ==
    {[ldapName |-> "person", attributes |-> attrs] @@ source @@ key :
        attrs \in SeqsUpTo(AttrSet, MaxAttrs),
        source \in {[openApiSchemaRef |-> S_RefPrefix \o N_Pet], [openApiSchemaName |-> N_Gone]},
        key \in {EmptyDict, [primaryKeyLdapAttribute |-> "uid"]}}

OtherObjectClass ==
    [ldapName |-> "group", openApiSchemaName |-> N_Pet, primaryKeyLdapAttribute |-> "cn",
     attributes |-> <<[ldapName |-> "cn", openApiPropertyName |-> N_name]>>]

MappingDoc(object_classes_dict) ==
    [json_ok |-> TRUE, top |-> {"dnStructure", "objectClasses"},
     dnStructure |-> {"baseDnSuffix", "rdnAttribute"},
     objectClasses |-> object_classes_dict]

MappingDocs ==
    {MappingDoc(<<[key |-> "person", value |-> oc]>> \o rest) :
        oc \in ObjectClassSet,
        rest \in {<<>>, <<[key |-> "group", value |-> OtherObjectClass]>>}}
    \cup {MappingDoc(<<[key |-> "group", value |-> OtherObjectClass], [key |-> "person", value |-> oc]>>) :
        oc \in ObjectClassSet}

\* --- documents for a whole run, among them documents the loaders reject
RunApiDocs ==
    { ApiDoc(PathsOf(<<[path |-> P_a_qb, key |-> K_get,
                        details |-> [responses |-> ("200" :> JsonOf(RefTo(N_Pet)))]],
                       [path |-> P_a_qb, key |-> K_head, details |-> EmptyDict]>>, <<>>), PetSchemas),
      ApiDoc(<<>>, <<>>),
      [ApiDoc(<<>>, <<>>) EXCEPT !.json_ok = FALSE],
      [ApiDoc(<<>>, <<>>) EXCEPT !.top = {"openapi", "info"}],
      [ApiDoc(<<>>, <<>>) EXCEPT !.top = {"openapi", "swagger", "info", "paths"}],
      [ApiDoc(<<>>, <<>>) EXCEPT !.ill_typed = {"paths"}] }

RunMappingDocs ==
    { MappingDoc(<<[key |-> "group", value |-> OtherObjectClass]>>),
      MappingDoc(<<[key |-> "person",
                    value |-> [ldapName |-> "person", openApiSchemaName |-> N_Pet,
                               attributes |-> <<[ldapName |-> "mail",
                                                 jsonPath |-> [expr |-> "$.contact.email", parses |-> TRUE]]>>]]>>),
      [MappingDoc(<<>>) EXCEPT !.json_ok = FALSE],
      [MappingDoc(<<>>) EXCEPT !.top = {"objectClasses"}],
      MappingDoc(<<[key |-> "person",
                    value |-> [ldapName |-> "person", openApiSchemaName |-> N_Pet,
                               attributes |-> <<[ldapName |-> "uid"]>>]]>>),
      MappingDoc(<<[key |-> "person",
                    value |-> [ldapName |-> "person", openApiSchemaName |-> N_Pet,
                               openApiSchemaRef |-> S_RefPrefix \o N_Pet, attributes |-> <<>>]]>>) }

\* --- documents for the models: primitive fragments and references
PrimitiveTypes == {"string", "integer", "number", "boolean", "null"}
PrimitiveFormats == {"date", "date-time", "byte", "binary", "int32", "int64", "float", "double", "uuid"}

PrimitiveFragments ==
    {[type |-> t] : t \in PrimitiveTypes}
    \cup {[type |-> t, format |-> f] : t \in PrimitiveTypes, f \in PrimitiveFormats}

RefFragments == {RefTo(N_Pet), RefTo(N_Tag), RefTo(N_Gone)}

\* Lists and maps over a few element fragments, a list without items, a list
\* of maps, an object with additionalProperties true (not a dict), an inline
\* object, and a reference that also has additionalProperties.
ElementFragments ==
    {[type |-> "string"], [type |-> "string", format |-> "date"],
     [type |-> "integer", format |-> "int64"], RefTo(N_Tag), [type |-> "object"],
     [type |-> "array", items |-> [type |-> "string"]]}

CompositeFragments ==
    {[type |-> "array", items |-> e] : e \in ElementFragments}
    \cup {[type |-> "object", additionalProperties |-> e] : e \in ElementFragments}
    \cup {[type |-> "array"],
          [type |-> "array", items |-> [type |-> "object",
                                        additionalProperties |-> [type |-> "string", format |-> "date"]]],
          [type |-> "object", additionalProperties |-> NotADict],
          [type |-> "object"],
          [additionalProperties |-> [type |-> "boolean"]],
          [type |-> "object", additionalProperties |-> [type |-> "string"]] @@ RefTo(N_Tag)}

\* Schema Pet with one property, alone or followed by schema Tag with one
\* property: among the tables, Pet referencing Tag referencing Pet.
ModelDocs ==
    {ApiDoc(<<>>, <<[key |-> N_Pet,
                     value |-> [type |-> "object", properties |-> <<[key |-> N_id, value |-> f]>>]]>> \o rest) :
        f \in PrimitiveFragments \cup RefFragments \cup CompositeFragments,
        rest \in {<<>>}
                 \cup {<<[key |-> N_Tag,
                          value |-> [type |-> "object", properties |-> <<[key |-> N_name, value |-> g]>>]]>> :
                         g \in RefFragments \cup {[type |-> "string", format |-> "date"],
                                                  [type |-> "integer", format |-> "int64"]}}}


\* Documents that declare security schemes: up to MaxSchemes of SchemeSet
\* under distinct names, and either no global security or a requirement list
\* over the declared names and one undeclared name.
MaxSchemes == 2

N_k_a == <<"k", "_", "a">>
N_k_b == <<"k", "-", "b">>
N_ba == <<"b", "a">>
N_be == <<"b", "e">>
N_di == <<"d", "i">>
N_oa == <<"o", "a">>
N_zz == <<"z", "z">>
H_X_A == <<"X", "-", "A">>
H_t == <<"t">>

SchemeSet ==
    {[key |-> N_k_a, value |-> [type |-> "apiKey", name |-> H_X_A, in |-> "header"]],
     [key |-> N_k_b, value |-> [type |-> "apiKey", name |-> H_t, in |-> "query"]],
     [key |-> N_ba, value |-> [type |-> "http", scheme |-> "basic"]],
     [key |-> N_be, value |-> [type |-> "http", scheme |-> "bearer"]],
     [key |-> N_di, value |-> [type |-> "http", scheme |-> "digest"]],
     [key |-> N_oa, value |-> [type |-> "oauth2",
                               flows |-> <<[key |-> "clientCredentials",
                                            value |-> [tokenUrl |-> <<"u">>]]>>]]}

SecurityLists(names) ==
    {<<>>} \cup {<<req>> : req \in SUBSET (names \cup {N_zz})}
           \cup {<<{a}, {b}>> : a, b \in names}

SecuredDoc(schemes, security) ==
    [securitySchemes |-> schemes, security |-> security]
    @@ [ApiDoc(<<>>, <<>>) EXCEPT !.top = @ \cup {"security"}]

AuthDocs ==
    LET declared == {d \in SeqsUpTo(SchemeSet, MaxSchemes) : UniqueKeys(d)}
    IN  {[securitySchemes |-> d] @@ ApiDoc(<<>>, <<>>) : d \in declared}
        \cup UNION {{SecuredDoc(d, sec) : sec \in SecurityLists(DictKeys(d))} : d \in declared}

\* --- documents for the directory types: schema Pet with the one property
\* tags, a primitive fragment or a list of one, and mappings of one object
\* class with one attribute, with and without a typeOverride.
ListFragments ==
    {[type |-> "array", items |-> e] : e \in PrimitiveFragments}
    \cup {[type |-> "array"],
          [type |-> "array", items |-> RefTo(N_Tag)],
          [type |-> "array", items |-> [type |-> "object"]],
          [type |-> "array", items |-> [type |-> "array", items |-> [type |-> "integer"]]]}

FieldTypeDocs ==
    {ApiDoc(<<>>, <<[key |-> N_Pet,
                     value |-> [type |-> "object", properties |-> <<[key |-> N_tags, value |-> f]>>]]>>) :
        f \in PrimitiveFragments \cup ListFragments}

FieldTypeMappings ==
    {MappingDoc(<<[key |-> "person",
                   value |-> [ldapName |-> "person", openApiSchemaName |-> N_Pet,
                              attributes |-> <<attr>>]]>>) :
        attr \in {[ldapName |-> "cn", openApiPropertyName |-> N_tags],
                  [ldapName |-> "cn", openApiPropertyName |-> N_tags, typeOverride |-> "binary"],
                  [ldapName |-> "cn", openApiPropertyName |-> N_tags, typeOverride |-> "dateTime"],
                  [ldapName |-> "cn", openApiPropertyName |-> N_nope]}}

-----------------------------------------------------------------------------
(* Specifications *)

\* What the run has written when _generate_schema is entered, and when
\* generate_all_java_files is entered after a schema.orx was rendered.
FilesBeforeSchema == <<[kind |-> "directories"], [kind |-> "pom.xml"], [kind |-> "meta.json"]>>
FilesBeforeJava == Append(FilesBeforeSchema, [kind |-> "schema.orx"])

InitWork ==
    /\ operations = {}
    /\ mod_i = 1
    /\ generated_models = {}
    /\ models = <<>>
    /\ cl_i = 1
    /\ methods = <<>>
    /\ client_method_metadata = <<>>
    /\ sch_i = 1
    /\ object_classes = <<>>
    /\ schema_context = [returned |-> FALSE]
    /\ auth_details = EmptyDict
    /\ diagnostics = {}

\* A whole run of run_generation.
Init ==
    /\ openapi \in RunApiDocs
    /\ mapping \in RunMappingDocs
    /\ schema_extraction \in BOOLEAN
    /\ pc = "load_openapi"
    /\ output_dir \in {"absent", "exists"}
    /\ engine = FALSE
    /\ files = <<>>
    /\ properties = <<>>
    /\ InitWork

Next ==
    \/ LoadOpenApi \/ LoadMapping \/ PrepareOutput \/ InitEngine
    \/ CreateOutputDirs \/ GeneratePomXml \/ GenerateMetaJson
    \/ SchemaStep \/ SchemaReturn
    \/ DetermineOperations \/ ModelPojoStep \/ ModelPojosReturn \/ BasePojos
    \/ ClientStep \/ ClientReturn \/ TypeConverters \/ MainConnector
    \/ WriteMappingConfig \/ ReportSuccess

Spec == Init /\ [][Next]_vars

\* _determine_operations on every document of OpsDocs.
InitOps ==
    /\ openapi \in OpsDocs
    /\ mapping = MappingDoc(<<>>)
    /\ schema_extraction \in BOOLEAN
    /\ pc = "java_ops"
    /\ output_dir = "exists"
    /\ engine = TRUE
    /\ files = FilesBeforeJava
    /\ properties = prepare_meta_context(openapi)
    /\ InitWork

NextOps == DetermineOperations

SpecOps == InitOps /\ [][NextOps]_vars

\* The models and the client of every document of ClientDocs.
InitClient ==
    /\ openapi \in ClientDocs
    /\ mapping = MappingDoc(<<>>)
    /\ schema_extraction = FALSE
    /\ pc = "java_models"
    /\ output_dir = "exists"
    /\ engine = TRUE
    /\ files = FilesBeforeJava
    /\ properties = prepare_meta_context(openapi)
    /\ InitWork

NextClient == ModelPojoStep \/ ModelPojosReturn \/ BasePojos \/ ClientStep \/ ClientReturn

SpecClient == InitClient /\ [][NextClient]_vars

\* generate_all_java_files on every document of TypeDocs and BodyDocs.
InitJava ==
    /\ openapi \in TypeDocs \cup BodyDocs
    /\ mapping = MappingDoc(<<>>)
    /\ schema_extraction = FALSE
    /\ pc = "java_ops"
    /\ output_dir = "exists"
    /\ engine = TRUE
    /\ files = FilesBeforeJava
    /\ properties = prepare_meta_context(openapi)
    /\ InitWork

NextJava ==
    \/ DetermineOperations \/ ModelPojoStep \/ ModelPojosReturn \/ BasePojos
    \/ ClientStep \/ ClientReturn \/ TypeConverters \/ MainConnector

SpecJava == InitJava /\ [][NextJava]_vars

\* The models of every document of ModelDocs.
InitModels ==
    /\ openapi \in ModelDocs
    /\ mapping = MappingDoc(<<>>)
    /\ schema_extraction = FALSE
    /\ pc = "java_models"
    /\ output_dir = "exists"
    /\ engine = TRUE
    /\ files = FilesBeforeJava
    /\ properties = prepare_meta_context(openapi)
    /\ InitWork

NextModels == ModelPojoStep \/ ModelPojosReturn

SpecModels == InitModels /\ [][NextModels]_vars

\* meta.json and the client of every document of AuthDocs, which have no
\* paths and no schemas, under a mapping with no object classes.
InitAuth ==
    /\ openapi \in AuthDocs
    /\ mapping = MappingDoc(<<>>)
    /\ schema_extraction = FALSE
    /\ pc = "meta"
    /\ output_dir = "exists"
    /\ engine = TRUE
    /\ files = SubSeq(FilesBeforeSchema, 1, 2)
    /\ properties = <<>>
    /\ InitWork

NextAuth ==
    \/ GenerateMetaJson \/ SchemaReturn \/ DetermineOperations
    \/ ModelPojosReturn \/ BasePojos \/ ClientReturn

SpecAuth == InitAuth /\ [][NextAuth]_vars

\* prepare_schema_context on every mapping of MappingDocs (all valid).
InitSchema ==
    /\ openapi = ApiDoc(<<>>, UserSchemas)
    /\ mapping \in MappingDocs
    /\ schema_extraction = FALSE
    /\ pc = "schema"
    /\ output_dir = "exists"
    /\ engine = TRUE
    /\ files = FilesBeforeSchema
    /\ properties = prepare_meta_context(openapi)
    /\ InitWork

NextSchema == SchemaStep \/ SchemaReturn

SpecSchema == InitSchema /\ [][NextSchema]_vars

\* prepare_schema_context on every document of FieldTypeDocs under every
\* mapping of FieldTypeMappings.
InitFieldTypes ==
    /\ openapi \in FieldTypeDocs
    /\ mapping \in FieldTypeMappings
    /\ schema_extraction = FALSE
    /\ pc = "schema"
    /\ output_dir = "exists"
    /\ engine = TRUE
    /\ files = FilesBeforeSchema
    /\ properties = prepare_meta_context(openapi)
    /\ InitWork

SpecFieldTypes == InitFieldTypes /\ [][NextSchema]_vars

-----------------------------------------------------------------------------
(* Properties *)

\* Some path of the document has the method, in any letter case, as a key.
SomePathHas(method) ==
    \E i \in 1..Len(get_paths(openapi)) :
        \E j \in 1..Len(get_paths(openapi)[i].value) :
            StrUpper(get_paths(openapi)[i].value[j].key) = method

\* C1: once _determine_operations has returned, the capability set is exactly
\* TestConnect, plus Search iff some path has GET, Insertion iff some path has
\* POST, Modification iff some path has PUT or PATCH, Deletion iff some path
\* has DELETE, and SchemaExtraction iff the caller's flag is set.
C1_CapabilitySet ==
    pc = "java_models" =>
        /\ operations \subseteq {"TestConnect", "Search", "Insertion", "Modification",
                                 "Deletion", "SchemaExtraction"}
        /\ "TestConnect" \in operations
        /\ "Search" \in operations <=> SomePathHas(<<"G", "E", "T">>)
        /\ "Insertion" \in operations <=> SomePathHas(<<"P", "O", "S", "T">>)
        /\ "Modification" \in operations <=>
               (SomePathHas(<<"P", "U", "T">>) \/ SomePathHas(<<"P", "A", "T", "C", "H">>))
        /\ "Deletion" \in operations <=> SomePathHas(<<"D", "E", "L", "E", "T", "E">>)
        /\ "SchemaExtraction" \in operations <=> schema_extraction

\* A document with PATCH and DELETE on two paths, no PUT and no GET, flag set:
\* Modification and Deletion without Search.
C1_Witness ==
    /\ pc = "java_models"
    /\ Len(get_paths(openapi)) = 2
    /\ SomePathHas(<<"P", "A", "T", "C", "H">>)
    /\ SomePathHas(<<"D", "E", "L", "E", "T", "E">>)
    /\ ~SomePathHas(<<"P", "U", "T">>)
    /\ ~SomePathHas(<<"G", "E", "T">>)
    /\ schema_extraction
    /\ operations = {"TestConnect", "Modification", "Deletion", "SchemaExtraction"}

\* --- prepare_schema_context

DeclaredPrimaryKey(ldap_oc_name) ==
    Get(get_object_class_mapping(mapping, ldap_oc_name), "primaryKeyLdapAttribute", "")

EmittedIn(classes, ldap_oc_name) ==
    \E i \in 1..Len(classes) : classes[i].ldapName = ldap_oc_name

\* C2: every emitted object class that declares a primary key has exactly one
\* attribute with primaryKey = true, and it is named as the declared key.
C2_ExactlyOnePrimaryKey ==
    \A i \in 1..Len(object_classes) :
        LET attributes == object_classes[i].attributes
            declared   == DeclaredPrimaryKey(object_classes[i].ldapName)
            keys       == {j \in 1..Len(attributes) : attributes[j].primaryKey}
        IN  declared # "" =>
                /\ Cardinality(keys) = 1
                /\ \A j \in keys : attributes[j].ldapName = declared

\* The source schema of the object class has the field the attribute points to.
FieldExists(oc_mapping, attr_mapping) ==
    /\ "openApiPropertyName" \in DOMAIN attr_mapping
    /\ DictHas(Get(SourceSchema(openapi, oc_mapping), "properties", <<>>),
               attr_mapping["openApiPropertyName"])

\* The declared primary key is not an attribute of the list, or no attribute
\* of that name points to a field of the source schema.
KeyUnresolved(oc_mapping) ==
    LET declared   == Get(oc_mapping, "primaryKeyLdapAttribute", "")
        attributes == Get(oc_mapping, "attributes", <<>>)
    IN  /\ declared # ""
        /\ \A j \in 1..Len(attributes) :
               Get(attributes[j], "ldapName", "") = declared => ~FieldExists(oc_mapping, attributes[j])

\* C3: an object class whose declared primary key cannot be resolved against
\* its source schema is not emitted, and once the schema step is over every
\* other object class that has a source schema is in the returned context.
C3_UnresolvedKeyExcluded ==
    /\ \A k \in 1..(sch_i - 1) :
           LET ldap_oc_name == get_ldap_object_classes(mapping)[k]
           IN  KeyUnresolved(get_object_class_mapping(mapping, ldap_oc_name))
                   => ~EmittedIn(object_classes, ldap_oc_name)
    /\ pc = "java_ops" =>
           \A k \in 1..Len(get_ldap_object_classes(mapping)) :
               LET ldap_oc_name == get_ldap_object_classes(mapping)[k]
                   oc_mapping   == get_object_class_mapping(mapping, ldap_oc_name)
               IN  (DOMAIN SourceSchema(openapi, oc_mapping) # {} /\ ~KeyUnresolved(oc_mapping))
                       => /\ schema_context.returned
                          /\ EmittedIn(schema_context.object_classes, ldap_oc_name)

\* The object class is one the loop keeps: it has a source schema, and its
\* primary key, if declared, is the name of an attribute of its list.
Kept(oc_mapping) ==
    /\ DOMAIN SourceSchema(openapi, oc_mapping) # {}
    /\ Get(oc_mapping, "primaryKeyLdapAttribute", "") # "" =>
           \E j \in 1..Len(oc_mapping["attributes"]) :
               oc_mapping["attributes"][j]["ldapName"] = oc_mapping["primaryKeyLdapAttribute"]

\* C10: once the schema step is over, every attribute mapped by a jsonPath
\* (none of the paths of the mappings locates a field) is emitted, with the
\* fallback type, in its emitted object class, and schema.orx is written.
C10_PathGapFallsBack ==
    pc = "java_ops" =>
        \A k \in 1..Len(get_ldap_object_classes(mapping)) :
            LET ldap_oc_name == get_ldap_object_classes(mapping)[k]
                oc_mapping   == get_object_class_mapping(mapping, ldap_oc_name)
            IN  \A j \in 1..Len(oc_mapping["attributes"]) :
                    LET attr_mapping == oc_mapping["attributes"][j]
                    IN  (Kept(oc_mapping) /\ "jsonPath" \in DOMAIN attr_mapping) =>
                            /\ schema_context.returned
                            /\ \E i \in 1..Len(schema_context.object_classes) :
                                   /\ schema_context.object_classes[i].ldapName = ldap_oc_name
                                   /\ \E a \in 1..Len(schema_context.object_classes[i].attributes) :
                                          LET emitted == schema_context.object_classes[i].attributes[a]
                                          IN  /\ emitted.ldapName = attr_mapping["ldapName"]
                                              /\ emitted.type = Get(attr_mapping, "typeOverride", DEFAULT_ORX_TYPE)
                            /\ \E f \in 1..Len(files) : files[f].kind = "schema.orx"

\* --- prepare_schema_context: the flags of the emitted attributes

\* The mapping of the i-th emitted object class and of its j-th attribute
\* (no attribute of the mappings is skipped: all name an ldapName and a field
\* or a path), and the field of the source schema the attribute resolves to,
\* EmptyDict when there is none.
EmittedClassMapping(i) == get_object_class_mapping(mapping, object_classes[i].ldapName)

EmittedAttrMapping(i, j) == EmittedClassMapping(i)["attributes"][j]

ResolvedField(i, j) ==
    IF FieldExists(EmittedClassMapping(i), EmittedAttrMapping(i, j))
    THEN DictGet(SourceSchema(openapi, EmittedClassMapping(i)).properties,
                 EmittedAttrMapping(i, j)["openApiPropertyName"], EmptyDict)
    ELSE EmptyDict

\* What the source schema declares for the field: required when the schema
\* lists the field under required (or the field says so itself), read-only
\* when the field says so.
SchemaDeclaresRequired(i, j) ==
    \/ Get(ResolvedField(i, j), "required", FALSE)
    \/ /\ FieldExists(EmittedClassMapping(i), EmittedAttrMapping(i, j))
       /\ LET listed == Get(SourceSchema(openapi, EmittedClassMapping(i)), "required", <<>>)
          IN  \E k \in 1..Len(listed) : listed[k] = EmittedAttrMapping(i, j)["openApiPropertyName"]

SchemaDeclaresReadOnly(i, j) == Get(ResolvedField(i, j), "readOnly", FALSE)

\* C18: for every emitted attribute, required and readOnly are the mapping's
\* values where the mapping sets them, and otherwise the values the source
\* schema declares for the field.
C18_FlagsFromMappingElseSchema ==
    \A i \in 1..Len(object_classes) :
        \A j \in 1..Len(object_classes[i].attributes) :
            LET emitted == object_classes[i].attributes[j]
                attr_mapping == EmittedAttrMapping(i, j)
            IN  /\ emitted.required = IF "required" \in DOMAIN attr_mapping
                                      THEN attr_mapping["required"]
                                      ELSE SchemaDeclaresRequired(i, j)
                /\ emitted.readOnly = IF "readOnly" \in DOMAIN attr_mapping
                                      THEN PyBool(attr_mapping["readOnly"])
                                      ELSE PyBool(SchemaDeclaresReadOnly(i, j))

\* C19: for every emitted attribute, multiValued is true exactly when the
\* field it resolves to in the source schema has type array, whether or not
\* the mapping gives a typeOverride; with no resolved field it is false.
C19_MultiValuedIffArray ==
    \A i \in 1..Len(object_classes) :
        /\ Len(object_classes[i].attributes) = Len(EmittedClassMapping(i)["attributes"])
        /\ \A j \in 1..Len(object_classes[i].attributes) :
               /\ object_classes[i].attributes[j].ldapName = EmittedAttrMapping(i, j)["ldapName"]
               /\ object_classes[i].attributes[j].multiValued
                      = (Get(ResolvedField(i, j), "type", "") = "array")

\* An emitted object class holds an attribute with a typeOverride on an array
\* field, multi-valued, next to an attribute whose field does not exist,
\* single-valued.
C19_Witness ==
    \E i \in 1..Len(object_classes) :
        \E j, k \in 1..Len(object_classes[i].attributes) :
            /\ "typeOverride" \in DOMAIN EmittedAttrMapping(i, j)
            /\ Get(ResolvedField(i, j), "type", "") = "array"
            /\ object_classes[i].attributes[j].multiValued
            /\ ResolvedField(i, k) = EmptyDict
            /\ ~object_classes[i].attributes[k].multiValued

\* C20: once the schema step is over, every object class that declares no
\* primary key and has a source schema is in the returned list, with an
\* attribute for each of its attributes that resolves to a field of the
\* schema, and none of its attributes has primaryKey = true.
C20_NoKeyClassKept ==
    pc = "java_ops" =>
        \A k \in 1..Len(get_ldap_object_classes(mapping)) :
            LET ldap_oc_name == get_ldap_object_classes(mapping)[k]
                oc_mapping   == get_object_class_mapping(mapping, ldap_oc_name)
            IN  (DOMAIN SourceSchema(openapi, oc_mapping) # {}
                 /\ "primaryKeyLdapAttribute" \notin DOMAIN oc_mapping) =>
                    /\ schema_context.returned
                    /\ \E i \in 1..Len(schema_context.object_classes) :
                          LET emitted == schema_context.object_classes[i]
                          IN  /\ emitted.ldapName = ldap_oc_name
                              /\ \A a \in 1..Len(emitted.attributes) : ~emitted.attributes[a].primaryKey
                              /\ \A j \in 1..Len(oc_mapping["attributes"]) :
                                    FieldExists(oc_mapping, oc_mapping["attributes"][j]) =>
                                        \E a \in 1..Len(emitted.attributes) :
                                            emitted.attributes[a].ldapName
                                                = oc_mapping["attributes"][j]["ldapName"]

\* --- prepare_schema_context: the directory types

DirectoryTypes == {"string", "integer", "long", "double", "boolean", "generalizedTime", "binary"}

\* The entry of the cross-map for the pair, else for the bare type, else string.
CrossMapped(type, format) ==
    IF ORX_TYPE_MAP(type, format) # "" THEN ORX_TYPE_MAP(type, format)
    ELSE IF ORX_TYPE_MAP(type, "") # "" THEN ORX_TYPE_MAP(type, "")
    ELSE "string"

\* C22: an emitted attribute of a list-typed field, the mapping giving no
\* typeOverride, has the directory type the cross-map gives for the type and
\* format of the list's elements (else for their bare type, else string); it
\* is a type of the vocabulary, not a type of lists.
C22_ListTakesElementType ==
    \A i \in 1..Len(object_classes) :
        \A j \in 1..Len(object_classes[i].attributes) :
            (Get(ResolvedField(i, j), "type", "") = "array"
             /\ "typeOverride" \notin DOMAIN EmittedAttrMapping(i, j)) =>
                LET items == Get(ResolvedField(i, j), "items", EmptyDict)
                    type  == object_classes[i].attributes[j].type
                IN  /\ type = CrossMapped(Get(items, "type", "string"), Get(items, "format", ""))
                    /\ type \in DirectoryTypes
                    /\ object_classes[i].attributes[j].multiValued

\* A list of integer/int64 without typeOverride is emitted as long.
C22_Witness ==
    /\ Len(object_classes) = 1
    /\ ResolvedField(1, 1) = [type |-> "array", items |-> [type |-> "integer", format |-> "int64"]]
    /\ "typeOverride" \notin DOMAIN EmittedAttrMapping(1, 1)
    /\ object_classes[1].attributes[1].type = "long"

\* C23: the directory type of every emitted attribute is one of string,
\* integer, long, double, boolean, generalizedTime, binary.
C23_ClosedVocabulary ==
    \A i \in 1..Len(object_classes) :
        \A j \in 1..Len(object_classes[i].attributes) :
            object_classes[i].attributes[j].type \in DirectoryTypes

\* --- _generate_backend_client

IsMethodEntry(entry) == StrUpper(entry.http_method) \in HTTP_METHODS

\* The entries the loop has made a method of, in order: methods[i] is the
\* method of ProcessedEntries[i].
ProcessedEntries ==
    SelectSeq(SubSeq(ClientEntries(get_paths(openapi)), 1, cl_i - 1), IsMethodEntry)

DeclaredId(entry) == Get(entry.op_details, "operationId", <<>>)

\* The schema name a reference fragment names, <<>> for any other fragment.
ReferencedSchema(fragment) ==
    IF "ref" \in DOMAIN fragment THEN SplitLast(fragment["ref"], "/") ELSE <<>>

\* The class name of the model _generate_model_pojos made for the schema (the
\* models are in the order of the schemas a model is made for).
ModelClassOf(schema_name) ==
    LET schemas == get_schemas(openapi)
        at      == CHOOSE i \in 1..Len(schemas) : schemas[i].key = schema_name
        before  == {i \in 1..at : IsPojoSchema(schemas[i].value)}
    IN  models[Cardinality(before)].class_name

HasModel(schema_name) ==
    /\ schema_name # <<>>
    /\ DictHas(get_schemas(openapi), schema_name)
    /\ IsPojoSchema(DictGet(get_schemas(openapi), schema_name, EmptyDict))

\* C4: when the loop has just made a method of an operation whose JSON success
\* response schema, or JSON request body schema, is a reference to a schema a
\* model was generated for, the payload type in the method and in the metadata
\* recorded for the operation, and the body parameter type, are the class name
\* of that model.
C4_PayloadNamesModel ==
    (pc = "java_client" /\ cl_i > 1 /\ IsMethodEntry(ClientEntries(get_paths(openapi))[cl_i - 1])) =>
        LET entry    == ClientEntries(get_paths(openapi))[cl_i - 1]
            method   == methods[Len(methods)]
            recorded == DictGet(client_method_metadata,
                                OperationId(entry.http_method, entry.path_template, entry.op_details),
                                EmptyDict)
            response == JsonSchemaOf(SuccessResponse(entry.op_details))
            body     == JsonSchemaOf(Get(entry.op_details, "requestBody", EmptyDict))
        IN  /\ (response.found /\ HasModel(ReferencedSchema(response.schema))) =>
                   /\ method.return_type_simple = ModelClassOf(ReferencedSchema(response.schema))
                   /\ recorded.payload_type = ModelClassOf(ReferencedSchema(response.schema))
            /\ (body.found /\ HasModel(ReferencedSchema(body.schema))) =>
                   method.request_body_param.type = ModelClassOf(ReferencedSchema(body.schema))

\* C5: while the run goes on, no name was written twice: the metadata has one
\* entry per method made, and generated_models one name per model made.
C5_SingleWriter ==
    /\ pc = "java_client" => Len(client_method_metadata) = Len(ProcessedEntries)
    /\ pc = "java_models" =>
           Cardinality(generated_models)
               = Cardinality({i \in 1..(mod_i - 1) : IsPojoSchema(get_schemas(openapi)[i].value)})

\* C6: two methods made of operations with no operationId, of different
\* method or different path, have different identifiers and different names.
C6_SynthesizedNamesDistinct ==
    \A i, j \in 1..Len(ProcessedEntries) :
        LET a == ProcessedEntries[i]
            b == ProcessedEntries[j]
        IN  (/\ DeclaredId(a) = <<>>
             /\ DeclaredId(b) = <<>>
             /\ <<StrUpper(a.http_method), a.path_template>> # <<StrUpper(b.http_method), b.path_template>>)
                => /\ OperationId(a.http_method, a.path_template, a.op_details)
                          # OperationId(b.http_method, b.path_template, b.op_details)
                   /\ methods[i].name # methods[j].name

\* C7: two methods made of operations that declare the same operationId, or
\* that declare none and have the same method and path, have the same name and
\* the same metadata entry, which carries that name; the name of a declared
\* operationId is recorded under that operationId.
C7_NameFunctionOfId ==
    \A i, j \in 1..Len(ProcessedEntries) :
        LET a == ProcessedEntries[i]
            b == ProcessedEntries[j]
        IN  /\ (DeclaredId(a) # <<>> /\ DeclaredId(a) = DeclaredId(b)) =>
                   /\ methods[i].name = methods[j].name
                   /\ DictHas(client_method_metadata, DeclaredId(a))
                   /\ DictGet(client_method_metadata, DeclaredId(a), EmptyDict).name = methods[i].name
            /\ (/\ DeclaredId(a) = <<>>
                /\ DeclaredId(b) = <<>>
                /\ StrLower(a.http_method) = StrLower(b.http_method)
                /\ a.path_template = b.path_template) =>
                   methods[i].name = methods[j].name

\* Two methods made, of GET and of POST on different paths, that declare the
\* same operationId.
C7_Witness ==
    /\ pc = "java_client"
    /\ Len(ProcessedEntries) = 2
    /\ DeclaredId(ProcessedEntries[1]) = Id_getA
    /\ DeclaredId(ProcessedEntries[2]) = Id_getA
    /\ StrUpper(ProcessedEntries[1].http_method) = StrUpper(K_get)
    /\ StrUpper(ProcessedEntries[2].http_method) = StrUpper(K_post)
    /\ ProcessedEntries[1].path_template # ProcessedEntries[2].path_template
    /\ methods[1].name = methods[2].name

\* The Java names of the path parameters of the signature, in the order the
\* parameters are declared, each once.
RECURSIVE DeclaredPathParams(_, _)
DeclaredPathParams(params, acc) ==
    IF params = <<>> THEN acc
    ELSE DeclaredPathParams(Tail(params),
                            IF Head(params).in = "path" /\ \A i \in 1..Len(acc) : acc[i] # Head(params).name
                            THEN Append(acc, Head(params).name) ELSE acc)

\* C8: the path-parameter list of every method made is in declaration order.
C8_DeclarationOrder ==
    \A i \in 1..Len(ProcessedEntries) :
        methods[i].path_params_in_sig = DeclaredPathParams(methods[i].params, <<>>)

\* --- request bodies

BodyPositions(params) == {k \in 1..Len(params) : params[k].in = "body"}

\* C24: every operation that declares a request body without an
\* application/json schema has its method and its metadata entry, with no
\* parameter of location body, and a pass of the loop over the operations
\* never ends the run; every operation with a JSON body schema has exactly
\* one parameter of location body, the last of its parameters.
C24_BodyParameter ==
    /\ [](\A i \in 1..Len(ProcessedEntries) :
            LET op_details == ProcessedEntries[i].op_details
                with_json  == /\ "requestBody" \in DOMAIN op_details
                              /\ JsonSchemaOf(op_details["requestBody"]).found
                recorded   == DictGet(client_method_metadata,
                                      OperationId(ProcessedEntries[i].http_method,
                                                  ProcessedEntries[i].path_template, op_details),
                                      EmptyDict)
            IN  /\ i <= Len(methods)
                /\ ("requestBody" \in DOMAIN op_details /\ ~with_json) =>
                       /\ BodyPositions(methods[i].params) = {}
                       /\ DOMAIN recorded # {}
                       /\ methods[i].request_body_param = EmptyDict
                /\ with_json =>
                       /\ BodyPositions(methods[i].params) = {Len(methods[i].params)}
                       /\ methods[i].request_body_param = methods[i].params[Len(methods[i].params)])
    /\ [][(pc = "java_client" /\ cl_i <= Len(ClientEntries(get_paths(openapi)))) =>
              (pc' = "java_client" /\ cl_i' = cl_i + 1 /\ Len(methods') >= Len(methods))]_vars

\* A POST with a path parameter, a query parameter and a JSON body, and a PUT
\* with a path parameter and an XML body: both methods are made.
C24_Witness ==
    /\ Len(ProcessedEntries) = 2
    /\ Len(methods) >= 2
    /\ Len(methods[1].params) = 3
    /\ methods[1].params[1].in = "path"
    /\ methods[1].params[2].in = "query"
    /\ methods[1].params[3].in = "body"
    /\ "requestBody" \in DOMAIN ProcessedEntries[2].op_details
    /\ Len(methods[2].params) = 1
    /\ methods[2].params[1].in = "path"

\* --- return types

IsNoContentDelete(entry) ==
    /\ StrUpper(entry.http_method) = <<"D", "E", "L", "E", "T", "E">>
    /\ "204" \in DOMAIN Get(entry.op_details, "responses", EmptyDict)

\* C25: the method of every DELETE operation that lists a 204 response
\* returns the response wrapper, and when the loop has just made it, the
\* metadata recorded for the operation has the wrapper as return type and
\* Void as payload type, whatever else the operation lists.
C25_NoContentDelete ==
    /\ \A i \in 1..Len(ProcessedEntries) :
           IsNoContentDelete(ProcessedEntries[i]) =>
               /\ methods[i].return_type = BACKEND_RESPONSE_BASE
               /\ methods[i].return_type # S_void
    /\ (pc = "java_client" /\ cl_i > 1 /\ IsMethodEntry(ClientEntries(get_paths(openapi))[cl_i - 1])) =>
           LET entry    == ClientEntries(get_paths(openapi))[cl_i - 1]
               recorded == DictGet(client_method_metadata,
                                   OperationId(entry.http_method, entry.path_template, entry.op_details),
                                   EmptyDict)
           IN  IsNoContentDelete(entry) =>
                   /\ recorded.return_type = BACKEND_RESPONSE_BASE
                   /\ recorded.payload_type = S_Void

\* The loop has just made the method of a DELETE that lists only a 204.
C25_Witness ==
    /\ pc = "java_client"
    /\ cl_i = 2
    /\ IsNoContentDelete(ClientEntries(get_paths(openapi))[1])
    /\ DOMAIN ClientEntries(get_paths(openapi))[1].op_details["responses"] = {"204"}
    /\ methods[1].return_type = BACKEND_RESPONSE_BASE
    /\ client_method_metadata[1].value.payload_type = S_Void

\* --- generate_all_java_files

FilesOfKind(kinds) == {f \in 1..Len(files) : files[f].kind \in kinds}

LaterArtifacts == {"request_converter", "response_converter", "connector"}

\* C26: the converters and the connector are written after the client, each
\* with the serialized metadata the client step returned, and once the
\* client step has returned nothing changes the metadata.
C26_MetadataHandedOn ==
    /\ [](\A f \in FilesOfKind(LaterArtifacts) :
            /\ \E g \in FilesOfKind({"client"}) : g < f
            /\ files[f].client_method_metadata_json = json_dumps(client_method_metadata)
            /\ \A g \in FilesOfKind(LaterArtifacts) :
                   files[g].client_method_metadata_json = files[f].client_method_metadata_json)
    /\ [](pc \in {"java_converters", "java_connector"} => FilesOfKind({"client"}) # {})
    /\ [][(pc \in {"java_converters", "java_connector", "mapping_config"}) =>
              (client_method_metadata' = client_method_metadata)]_vars

\* The connector is written after both converters, for a document with two
\* operations recorded in the metadata.
C26_Witness ==
    /\ Len(client_method_metadata) = 2
    /\ FilesOfKind({"request_converter"}) # {}
    /\ FilesOfKind({"response_converter"}) # {}
    /\ FilesOfKind({"connector"}) # {}

\* --- run_generation

\* C9: when a document is not parsed or fails its structural schema, the run,
\* once past loading, has exited with an error, the output directory is as it
\* was found, the engine is not constructed and nothing is written.
C9_AbortBeforeAnything ==
    LET rejected == \/ ~(openapi.json_ok /\ ValidOpenApi(openapi))
                    \/ ~(mapping.json_ok /\ ValidMapping(mapping))
    IN  (rejected /\ pc \notin {"load_openapi", "load_mapping"}) =>
            /\ pc = "exit1"
            /\ output_dir \in {"absent", "exists"}
            /\ engine = FALSE
            /\ files = <<>>

\* A valid API document and a mapping that parses and fails MAPPING_SCHEMA:
\* the run has exited and the output directory is still absent.
C9_Witness ==
    /\ pc = "exit1"
    /\ openapi.json_ok /\ ValidOpenApi(openapi)
    /\ mapping.json_ok /\ ~ValidMapping(mapping)
    /\ output_dir = "absent"
    /\ engine = FALSE
    /\ files = <<>>

\* --- get_java_type under _generate_model_pojos

IsPojoEntry(entry) == IsPojoSchema(entry.value)

\* The schemas a model is made for, in order: models[i] is the model of
\* PojoSchemas[i], and its fields are those of the schema's properties.
PojoSchemas == SelectSeq(get_schemas(openapi), IsPojoEntry)

FragmentOf(i, j) == Get(PojoSchemas[i].value, "properties", <<>>)[j].value

IsReference(fragment) ==
    Get(fragment, "type", "object") = "object" /\ "ref" \in DOMAIN fragment

\* C11: every field whose fragment refers to a schema the document does not
\* have is given an open-ended object type.
C11_UnresolvedReferenceOpen ==
    \A i \in 1..Len(models) :
        \A j \in 1..Len(models[i].fields) :
            (IsReference(FragmentOf(i, j))
             /\ ~DictHas(get_schemas(openapi), ReferencedSchema(FragmentOf(i, j))))
                => models[i].fields[j].type \in {S_Object, S_MapStringObject}

\* C12: every pass of the loop over the schemas moves to the next schema or
\* leaves the loop, there is no pass beyond the last schema, and every field
\* whose fragment is a reference has the simple name of the referenced schema
\* as its type, whether or not the referenced schema refers back.
C12_CyclesTerminateShallow ==
    /\ [](mod_i <= Len(get_schemas(openapi)) + 1)
    /\ [][pc = "java_models" => (mod_i' = mod_i + 1 \/ pc' # "java_models")]_vars
    /\ [](\A i \in 1..Len(models) :
            \A j \in 1..Len(models[i].fields) :
                IsReference(FragmentOf(i, j))
                    => models[i].fields[j].type = Capitalize(ReferencedSchema(FragmentOf(i, j))))

\* Pet refers to Tag and Tag refers to Pet; both models are made and the
\* loop has returned.
C12_Witness ==
    /\ pc = "java_base"
    /\ Len(models) = 2
    /\ FragmentOf(1, 1) = RefTo(N_Tag)
    /\ FragmentOf(2, 1) = RefTo(N_Pet)
    /\ models[1].fields[1].type = N_Tag
    /\ models[2].fields[1].type = N_Pet

\* The fixed table of primitive types.
PrimitiveJavaType(type, format) ==
    CASE type = "string" /\ format = "date" -> S_LocalDate
      [] type = "string" /\ format = "date-time" -> S_OffsetDateTime
      [] type = "string" /\ format \in {"byte", "binary"} -> S_byteArray
      [] type = "string" -> S_String
      [] type = "integer" /\ format = "int64" -> S_Long
      [] type = "integer" -> S_Integer
      [] type = "number" /\ format = "float" -> S_Float
      [] type = "number" -> S_Double
      [] type = "boolean" -> S_Boolean
      [] OTHER -> S_Object

\* C13: every field of a primitive fragment has the type of the fixed table
\* (an unknown format the bare type's default, an unknown type Object), and
\* fields of equal fragments have equal types.
C13_PrimitiveTable ==
    \A i \in 1..Len(models) :
        \A j \in 1..Len(models[i].fields) :
            /\ FragmentOf(i, j) \in PrimitiveFragments =>
                   models[i].fields[j].type
                       = PrimitiveJavaType(FragmentOf(i, j)["type"], Get(FragmentOf(i, j), "format", ""))
            /\ \A k \in 1..Len(models) :
                   \A l \in 1..Len(models[k].fields) :
                       FragmentOf(i, j) = FragmentOf(k, l)
                           => models[i].fields[j].type = models[k].fields[l].type

\* A model with a field of string with the unknown format uuid and a model
\* with a field of string/date: the bare default and the table's type.
C13_Witness ==
    /\ Len(models) = 2
    /\ FragmentOf(1, 1) = [type |-> "string", format |-> "uuid"]
    /\ FragmentOf(2, 1) = [type |-> "string", format |-> "date"]
    /\ models[1].fields[1].type = S_String
    /\ models[2].fields[1].type = S_LocalDate

\* The type of a fragment as the rules for lists, references and maps give
\* it, over the fixed table for the primitive fragments.
RECURSIVE CompositeJavaType(_)
CompositeJavaType(fragment) ==
    LET type == Get(fragment, "type", "object")
    IN  IF type = "array"
        THEN S_ListOpen \o CompositeJavaType(Get(fragment, "items", EmptyDict)) \o S_Close
        ELSE IF type # "object"
        THEN PrimitiveJavaType(type, Get(fragment, "format", ""))
        ELSE IF "ref" \in DOMAIN fragment
        THEN to_java_class_name(ReferencedSchema(fragment))
        ELSE IF "additionalProperties" \in DOMAIN fragment /\ IsDict(fragment["additionalProperties"])
        THEN S_MapOpen \o CompositeJavaType(fragment["additionalProperties"]) \o S_Close
        ELSE S_MapStringObject

\* C21: a field of an array fragment has the type List of its items' type, a
\* field of an object fragment with a reference the class name of the
\* referenced schema's simple name, a field of an object fragment without a
\* reference and with dict additionalProperties the type Map of the value
\* type, and a field of an object fragment with neither Map<String, Object>.
C21_CompositeTypes ==
    \A i \in 1..Len(models) :
        \A j \in 1..Len(models[i].fields) :
            LET fragment == FragmentOf(i, j)
                type     == models[i].fields[j].type
            IN  /\ fragment \in CompositeFragments => type = CompositeJavaType(fragment)
                /\ Get(fragment, "type", "object") = "array" =>
                       /\ SubSeq(type, 1, Len(S_ListOpen)) = S_ListOpen
                       /\ type[Len(type)] = ">"
                /\ (Get(fragment, "type", "object") = "object"
                    /\ DOMAIN fragment \cap {"ref", "additionalProperties"} = {}) =>
                       type = S_MapStringObject

\* A model whose field is a list of maps of dates.
C21_Witness ==
    /\ Len(models) >= 1
    /\ FragmentOf(1, 1) = [type |-> "array",
                           items |-> [type |-> "object",
                                      additionalProperties |-> [type |-> "string", format |-> "date"]]]
    /\ models[1].fields[1].type = S_ListOpen \o S_MapOpen \o S_LocalDate \o S_Close \o S_Close

\* --- parameters of the client methods

\* The names between braces in a path template, as a set.
RECURSIVE Placeholders(_, _, _)
Placeholders(path_template, inside, cur) ==
    IF path_template = <<>> THEN {}
    ELSE LET c == Head(path_template)
         IN  IF c = "{" THEN Placeholders(Tail(path_template), TRUE, <<>>)
             ELSE IF c = "}" /\ inside
                  THEN {cur} \cup Placeholders(Tail(path_template), FALSE, <<>>)
                  ELSE Placeholders(Tail(path_template), inside,
                                    IF inside THEN Append(cur, c) ELSE cur)

\* C14: in every method made, each placeholder of the path template is the
\* name of exactly one path parameter of the method's parameter list.
C14_PlaceholderOnce ==
    \A i \in 1..Len(ProcessedEntries) :
        \A placeholder \in Placeholders(methods[i].endpoint_path_template, FALSE, <<>>) :
            Cardinality({k \in 1..Len(methods[i].params) :
                            /\ methods[i].params[k].in = "path"
                            /\ methods[i].params[k].original_name = placeholder}) = 1

\* The positions of the parameters of a list with this name and location.
Declaring(param_list, name, location) ==
    {k \in 1..Len(param_list) : param_list[k]["name"] = name /\ param_list[k]["in"] = location}

\* C15: when the path item and the operation each declare a path or query
\* parameter of the same name and location once, the method made has a single
\* parameter of that name and location, with the type of the operation's
\* declaration.
C15_OperationLevelOverrides ==
    \A i \in 1..Len(ProcessedEntries) :
        LET params == methods[i].params
            common == ProcessedEntries[i].common_params
            own    == Get(ProcessedEntries[i].op_details, "parameters", <<>>)
        IN  \A o \in 1..Len(own) :
                LET name     == own[o]["name"]
                    location == own[o]["in"]
                    merged   == {k \in 1..Len(params) :
                                    params[k].original_name = name /\ params[k].in = location}
                IN  (/\ location \in {"path", "query"}
                     /\ Cardinality(Declaring(own, name, location)) = 1
                     /\ Cardinality(Declaring(common, name, location)) = 1)
                        => /\ Cardinality(merged) = 1
                           /\ \A k \in merged : params[k].type = get_java_type(own[o]["schema"])

\* The declared schemes a global requirement names, and the document with
\* only some of its declared schemes.
Referenced(name) == name \in used_scheme_names(openapi)

WithSchemes(keep(_)) ==
    [openapi EXCEPT !.securitySchemes = SelectSeq(@, LAMBDA e : keep(e.key))]

AuthComputed == auth_details # EmptyDict

\* C16: the client's auth details and the metadata's credential properties
\* hold a requirement for a declared security scheme exactly when a global
\* security requirement names it: the schemes no requirement names add
\* nothing to either, and every scheme a requirement names adds something to
\* both.
C16_RequirementIffReferenced ==
    AuthComputed =>
        /\ properties = prepare_meta_context(WithSchemes(Referenced))
        /\ auth_details = _prepare_auth_details(WithSchemes(Referenced))
        /\ \A i \in 1..Len(get_security_schemes(openapi)) :
              LET name == get_security_schemes(openapi)[i].key
                  alone == WithSchemes(LAMBDA n : n = name)
              IN  Referenced(name) =>
                     /\ Len(prepare_meta_context(alone)) > 1
                     /\ _prepare_auth_details(alone) # NoAuthDetails

\* C17: when the global requirements name several declared schemes, the auth
\* details carry the requirement of each of them at once; in particular
\* every named api-key scheme has its own name and location there.
C17_SetSemantics ==
    AuthComputed =>
        \A i \in 1..Len(get_security_schemes(openapi)) :
            LET name == get_security_schemes(openapi)[i].key
                scheme == get_security_schemes(openapi)[i].value
            IN  Referenced(name) =>
                   /\ scheme.type = "apiKey" =>
                         /\ auth_details.needs_api_key
                         /\ auth_details.api_key_name = scheme.name
                         /\ auth_details.api_key_in = scheme["in"]
                   /\ (scheme.type = "http" /\ scheme.scheme = "basic") =>
                         auth_details.needs_http_basic
                   /\ (scheme.type = "http" /\ scheme.scheme = "bearer") =>
                         auth_details.needs_bearer_token
                   /\ scheme.type = "oauth2" => auth_details.needs_oauth

\* The credential property names the client reads for one declared scheme,
\* and the property names the metadata declares for it.
ClientPropertyNames(name, scheme) ==
    LET details == AuthDetailsStep(NoAuthDetails, name, scheme, {name})
    IN  {details.api_key_prop_name, details.http_user_prop_name,
         details.http_pass_prop_name, details.bearer_token_prop_name} \ {None}

MetaPropertyNames(name, scheme) ==
    LET props == SchemeProperties(name, scheme, {name})
    IN  {props[k].name : k \in 1..Len(props)}

ReadByClient ==
    {auth_details.api_key_prop_name, auth_details.http_user_prop_name,
     auth_details.http_pass_prop_name, auth_details.bearer_token_prop_name} \ {None}

DeclaredInMeta == {properties[k].name : k \in 1..Len(properties)}

\* C27: for every api-key, basic or bearer scheme a global security
\* requirement names, the credential property names the generated client
\* reads are the property names the connector metadata declares for that
\* scheme, so every property the client reads is one meta.json declares.
C27_SameCredentialPropertyNames ==
    AuthComputed =>
        /\ ReadByClient \subseteq DeclaredInMeta
        /\ \A i \in 1..Len(get_security_schemes(openapi)) :
              LET name == get_security_schemes(openapi)[i].key
                  scheme == get_security_schemes(openapi)[i].value
              IN  (Referenced(name) /\ scheme.type \in {"apiKey", "http"}) =>
                      ClientPropertyNames(name, scheme) = MetaPropertyNames(name, scheme)

\* C28: when the loop has just made the method of an operation, the payload
\* type recorded in the metadata agrees with the method's return_type_simple:
\* if the success response declares a JSON schema both are the type resolved
\* from it, and the metadata says Void only for a method without a typed
\* payload (return_type_simple void).
C28_PayloadTypeAgrees ==
    (pc = "java_client" /\ cl_i > 1 /\ IsMethodEntry(ClientEntries(get_paths(openapi))[cl_i - 1])) =>
        LET entry    == ClientEntries(get_paths(openapi))[cl_i - 1]
            method   == methods[Len(methods)]
            recorded == DictGet(client_method_metadata,
                                OperationId(entry.http_method, entry.path_template, entry.op_details),
                                EmptyDict)
            response == JsonSchemaOf(SuccessResponse(entry.op_details))
        IN  /\ response.found =>
                   /\ method.return_type_simple = get_java_type(response.schema)
                   /\ recorded.payload_type = method.return_type_simple
            /\ recorded.payload_type = S_Void => method.return_type_simple = S_void

\* The artifacts of a run in the order generate_all writes them; the Java
\* sources are here the client and the connector, the first and the last
\* class generate_all_java_files renders after the models.
ArtifactOrder == <<"pom.xml", "meta.json", "schema.orx", "client", "connector", "mapping_config.json">>

IsWritten(kind) == FilesOfKind({kind}) # {}

FirstWritten(kind) == CHOOSE f \in FilesOfKind({kind}) : \A g \in FilesOfKind({kind}) : f <= g

\* C29: when the run has reported success and ended with exit code 0, the
\* build descriptor, the connector metadata, the directory schema, the Java
\* sources and the mapping copy have all been written, in this order; no
\* failure to prepare or render one of them ends in exit code 0 without it.
C29_SuccessMeansAllWritten ==
    pc = "exit0" =>
        /\ \A a \in 1..Len(ArtifactOrder) : IsWritten(ArtifactOrder[a])
        /\ \A a, b \in 1..Len(ArtifactOrder) :
               (a < b /\ IsWritten(ArtifactOrder[a]) /\ IsWritten(ArtifactOrder[b])) =>
                   FirstWritten(ArtifactOrder[a]) < FirstWritten(ArtifactOrder[b])

\* The class names get_java_type takes from references when it resolves a
\* fragment: the reference itself, or the references of the items of a list
\* and of the values of a map.
RECURSIVE ReferenceTypeNames(_)
ReferenceTypeNames(schema_prop) ==
    LET openapi_type == Get(schema_prop, "type", "object")
    IN  IF openapi_type = "array"
        THEN ReferenceTypeNames(Get(schema_prop, "items", EmptyDict))
        ELSE IF openapi_type = "object"
        THEN IF Get(schema_prop, "ref", <<>>) # <<>>
             THEN {to_java_class_name(SplitLast(schema_prop["ref"], "/"))}
             ELSE IF IsDict(Get(schema_prop, "additionalProperties", NotADict))
             THEN ReferenceTypeNames(schema_prop["additionalProperties"])
             ELSE {}
        ELSE {}

\* The fragments resolved for the method of one operation: the schemas of
\* its parameters, of its JSON request body and of its success response.
OperationFragments(entry) ==
    LET declared == entry.common_params \o Get(entry.op_details, "parameters", <<>>)
        body     == JsonSchemaOf(Get(entry.op_details, "requestBody", EmptyDict))
        response == JsonSchemaOf(SuccessResponse(entry.op_details))
    IN  {declared[k]["schema"] : k \in {n \in 1..Len(declared) : declared[n]["in"] \in {"path", "query"}}}
        \cup (IF body.found THEN {body.schema} ELSE {})
        \cup (IF response.found THEN {response.schema} ELSE {})

\* C30: once _generate_model_pojos has returned, every class name a model
\* field, a parameter, a request body or a response payload takes from a
\* reference is one of the model class names it returned, and the type
\* written in the method for a referencing response is built from it.
C30_ReferencesNameModels ==
    pc \in {"java_base", "java_client", "java_converters"} =>
        /\ \A i \in 1..Len(models) :
               \A j \in 1..Len(models[i].fields) :
                   ReferenceTypeNames(FragmentOf(i, j)) \subseteq generated_models
        /\ \A i \in 1..Len(ProcessedEntries) :
               /\ \A fragment \in OperationFragments(ProcessedEntries[i]) :
                      ReferenceTypeNames(fragment) \subseteq generated_models
               /\ LET response == JsonSchemaOf(SuccessResponse(ProcessedEntries[i].op_details))
                  IN  (response.found /\ "ref" \in DOMAIN response.schema) =>
                          methods[i].return_type_simple \in generated_models

====
